---- MODULE Spec2Model ----
(***************************************************************************)
(* Task-automation prototype (hassaan09/POC-1.0).                          *)
(*                                                                         *)
(* Two implementations of the same idea live side by side in the sources:  *)
(*   - the application pipeline: app.py -> task_processor.py ->            *)
(*     ui_tree_manager.py (workbook with sheets categories,                *)
(*     task_templates, action_steps, element_selectors);                   *)
(*   - the action catalogue: ui_tree.py + tfidf_matcher.py (workbook with  *)
(*     sheets Categories, Actions, Steps) and automation_engine.py.        *)
(* Variables of the first carry no suffix, those of the second end in A.   *)
(* The two never run in one process (app.py imports src.ui_tree_manager,   *)
(* tfidf_matcher.py imports ui_tree): a behaviour is one of either.        *)
(*                                                                         *)
(* scikit-learn's vectorizer and cosine_similarity are library code: the   *)
(* similarity vector of a query is an input of the matching actions, drawn *)
(* from SimValues (hundredths).  The browser/desktop driver is external    *)
(* too: whether a primitive succeeds is an input of ExecuteStep.           *)
(***************************************************************************)
EXTENDS Integers, Sequences, FiniteSets, TLC

VARIABLES
    program,         \* which of the two implementations this process runs
    xlsx,            \* Config.UI_MAPPINGS_FILE on disk
    ui_mappings,     \* UITreeManager.ui_mappings (ui_tree_manager.py)
    tfidf_matrix,    \* UITreeManager.tfidf_matrix: the documents it was fitted on
    runs,            \* automation threads started by start_automation_thread
    automation_engine, \* TaskAutomationApp.automation_engine (id of the run that built it)
    current_status,  \* TaskAutomationApp.current_status
    last_response,   \* value returned by the last process_input call
    handlers,        \* process_input calls past their thread start: what each will return
    last_match,      \* last direct matcher query and its result
    call,            \* last direct call of another function: arguments and result
    writes,          \* what the user has put in place of the workbook on disk, in order
    xlsxA,           \* data/ui_tree.xlsx on disk (ui_tree.py)
    framesA,         \* ui_tree.UITreeManager.categories_df, actions_df, steps_df
    ui_mappingsA,    \* ui_tree.UITreeManager.ui_mappings (insertion-ordered dict)
    action_ids,      \* TFIDFMatcher.action_ids
    action_texts,    \* TFIDFMatcher.action_texts
    action_vectors   \* TFIDFMatcher.action_vectors

vars == <<program, xlsx, ui_mappings, tfidf_matrix, runs, automation_engine, current_status,
          last_response, handlers, last_match, call, writes, xlsxA, framesA, ui_mappingsA, action_ids,
          action_texts, action_vectors>>

varsApp == <<runs, automation_engine, current_status, last_response, handlers>>
varsStore == <<xlsx, ui_mappings, tfidf_matrix, writes>>
varsA == <<xlsxA, framesA, ui_mappingsA, action_ids, action_texts, action_vectors>>

----------------------------------------------------------------------------
(* Bounds of the model *)

MaxRuns == 1         \* requests that start an automation thread, one after the other
MaxThreads == 2      \* automation threads when requests arrive while a run executes
MaxWrites == 1       \* times the user replaces the workbook while the application runs
MaxEdits == 2        \* times the user replaces the workbook of a store
MaxWords == 4        \* words of a text handed to extract_dynamic_values

----------------------------------------------------------------------------
(* Values *)

None == [kind |-> "None"]        \* Python None
NaN == "NaN"                     \* pandas' value of an empty cell
Missing == [kind |-> "Missing"]  \* os.path.exists(file) is False
Corrupt == [kind |-> "Corrupt"]  \* the file exists and pd.read_excel raises on it

TFIDF_MIN_SIMILARITY == 10   \* Config.TFIDF_MIN_SIMILARITY = 0.1, in hundredths

\* similarity scores a query can get, in hundredths: below, at, above the floor
SimValues == {9, 10, 30}
\* the scores drawn for the requests of the application
AppSimValues == {9, 30}
\* how many rows of an index a query scores above the lowest score
HitCounts == {0, 1, 2}

Range(s) == {s[i] : i \in DOMAIN s}

\* str.lower (and re.IGNORECASE) on the words of the model
lower(s) ==
    CASE s = "Click" -> "click"
      [] s = "About" -> "about"
      [] s = "Find" -> "find"
      [] s = "WEB_NAVIGATE" -> "web_navigate"
      [] OTHER -> s

----------------------------------------------------------------------------
(* Workbooks of the application pipeline (ui_tree_manager.py) *)

Tpl(id, cat, name) == [task_id |-> id, category_id |-> cat, task_name |-> name]

StepRow(sid, tid, ord, typ, tgt, val) ==
    [step_id |-> sid, task_id |-> tid, step_order |-> ord, action_type |-> typ,
     target_element |-> tgt, action_value |-> val]

Sel(id, typ, val) == [element_id |-> id, selector_type |-> typ, selector_value |-> val]

AllSheets == {"categories", "task_templates", "action_steps", "element_selectors"}

\* the four DataFrames built by create_default_mappings
DefaultFrames ==
    [kind |-> "book", sheets |-> AllSheets,
     categories |-> <<"email", "web", "file", "app", "search">>,
     task_templates |->
        << Tpl("email_compose", "email", "Compose Email"),
           Tpl("web_search", "search", "Search Web"),
           Tpl("web_navigate", "web", "Navigate Website"),
           Tpl("file_create", "file", "Create File"),
           Tpl("app_open", "app", "Open Application") >>,
     action_steps |->
        << StepRow("email_1", "email_compose", 1, "navigate", "url", "https://gmail.com"),
           StepRow("email_2", "email_compose", 2, "click", "compose_button", ""),
           StepRow("email_3", "email_compose", 3, "type", "recipient_field", ""),
           StepRow("search_1", "web_search", 1, "navigate", "url", "https://google.com"),
           StepRow("search_2", "web_search", 2, "type", "search_box", ""),
           StepRow("nav_1", "web_navigate", 1, "navigate", "url", ""),
           StepRow("nav_2", "web_navigate", 2, "wait", "page_load", "") >>,
     element_selectors |->
        << Sel("compose_button", "xpath", "//div[Compose]"),
           Sel("recipient_field", "xpath", "//input[To]"),
           Sel("subject_field", "xpath", "//input[subjectbox]"),
           Sel("message_body", "xpath", "//div[Message Body]"),
           Sel("send_button", "xpath", "//div[Send]"),
           Sel("search_box", "name", "q") >>]

\* A workbook the user put in place of the default one: the rows of the
\* action_steps sheet are not in step order, one template has no steps.
FormFrames ==
    [kind |-> "book", sheets |-> AllSheets,
     categories |-> <<"web">>,
     task_templates |->
        << Tpl("fill_form", "web", "Fill Form"),
           Tpl("idle_task", "web", "Idle") >>,
     action_steps |->
        << StepRow("f_2", "fill_form", 2, "type", "name_field", "hello"),
           StepRow("f_3", "fill_form", 3, "wait", "page_load", ""),
           StepRow("f_1", "fill_form", 1, "Click", "go_button", "") >>,
     element_selectors |->
        << Sel("go_button", "css", "#go"),
           Sel("name_field", "css", "#name") >>]

\* A later edition of that workbook: the templates swapped, another selector
\* for go_button, name_field gone, the steps of fill_form changed, the action
\* type of its second step left empty.
FormFramesV2 ==
    [kind |-> "book", sheets |-> AllSheets,
     categories |-> <<"web">>,
     task_templates |->
        << Tpl("idle_task", "web", "Idle"),
           Tpl("fill_form", "web", "Fill Form") >>,
     action_steps |->
        << StepRow("g_1", "fill_form", 1, "click", "go_button", ""),
           StepRow("g_2", "fill_form", 2, "", "page_load", ""),
           StepRow("g_3", "fill_form", 3, "wait", "page_load", "") >>,
     element_selectors |->
        << Sel("go_button", "css", "#submit") >>]

\* A workbook with one task for each of two mail sites: the two templates
\* have the same name, keywords and description
TwinFrames ==
    [kind |-> "book", sheets |-> AllSheets,
     categories |-> <<"email", "web">>,
     task_templates |->
        << Tpl("mail_gmail", "email", "Compose Email"),
           Tpl("mail_outlook", "email", "Compose Email"),
           Tpl("fill_form", "web", "Fill Form") >>,
     action_steps |->
        << StepRow("m_1", "mail_gmail", 1, "navigate", "url", "https://gmail.com"),
           StepRow("o_1", "mail_outlook", 1, "navigate", "url", "https://outlook.com"),
           StepRow("f_1", "fill_form", 1, "click", "go_button", "") >>,
     element_selectors |->
        << Sel("go_button", "css", "#go") >>]

\* A workbook without the task_templates sheet
NoTemplateFrames ==
    [kind |-> "book", sheets |-> AllSheets \ {"task_templates"},
     categories |-> <<"web">>,
     task_templates |-> <<>>,
     action_steps |-> <<>>,
     element_selectors |-> <<>>]

\* DataFrame.to_excel: an empty string and a NaN both leave the cell empty
to_cell(v) == IF v = "" \/ v = NaN THEN "" ELSE v
\* pd.read_excel: an empty cell is read as NaN
from_cell(c) == IF c = "" THEN NaN ELSE c

StepToCells(r) ==
    [r EXCEPT !.action_type = to_cell(@), !.target_element = to_cell(@),
              !.action_value = to_cell(@)]
StepFromCells(r) ==
    [r EXCEPT !.action_type = from_cell(@), !.target_element = from_cell(@),
              !.action_value = from_cell(@)]

\* a to_excel that leaves the action_steps sheet without rows
to_excel_without_steps(frames) == [frames EXCEPT !.action_steps = <<>>]

\* pd.ExcelWriter + to_excel of the four sheets
to_excel(frames) ==
    [frames EXCEPT !.action_steps = [i \in DOMAIN @ |-> StepToCells(@[i])]]
\* pd.read_excel(file, sheet_name=None): a dict of all sheets
read_excel(book) ==
    [book EXCEPT !.action_steps = [i \in DOMAIN @ |-> StepFromCells(@[i])]]

----------------------------------------------------------------------------
(* UITreeManager of ui_tree_manager.py *)

\* create_default_mappings: writes the default workbook over the file
create_default_mappings == to_excel(DefaultFrames)

Matrix(docs) == [kind |-> "matrix", docs |-> docs]

\* prepare_tfidf_matrix: one document per row of task_templates, in row order;
\* the matrix is left as it was when there is no row; raises without the sheet
PrepareRaises(mappings) == "task_templates" \notin mappings.sheets

prepare_tfidf_matrix(mappings, old) ==
    IF Len(mappings.task_templates) > 0
    THEN Matrix([i \in DOMAIN mappings.task_templates |->
                    mappings.task_templates[i].task_id])
    ELSE old

\* load_ui_mappings without the os.path.exists check: reading a missing file
\* raises, the handler writes the default workbook and the store stays as it was
load_ui_mappings_no_exists_check(file, mappings, matrix) ==
    IF file = Missing \/ file = Corrupt
    THEN [xlsx |-> create_default_mappings, ui_mappings |-> mappings,
          tfidf_matrix |-> matrix]
    ELSE IF PrepareRaises(read_excel(file))
    THEN [xlsx |-> create_default_mappings, ui_mappings |-> read_excel(file),
          tfidf_matrix |-> matrix]
    ELSE [xlsx |-> file, ui_mappings |-> read_excel(file),
          tfidf_matrix |-> prepare_tfidf_matrix(read_excel(file), matrix)]

\* load_ui_mappings: the store after the call, from the file and the store before
load_ui_mappings(file, mappings, matrix) ==
    LET present == IF file = Missing THEN create_default_mappings ELSE file
    IN  IF present = Corrupt
        THEN \* read_excel raises: the handler rewrites the default workbook
             [xlsx |-> create_default_mappings, ui_mappings |-> mappings,
              tfidf_matrix |-> matrix]
        ELSE IF PrepareRaises(read_excel(present))
        THEN \* ui_mappings is already assigned when prepare_tfidf_matrix raises
             [xlsx |-> create_default_mappings, ui_mappings |-> read_excel(present),
              tfidf_matrix |-> matrix]
        ELSE [xlsx |-> present, ui_mappings |-> read_excel(present),
              tfidf_matrix |-> prepare_tfidf_matrix(read_excel(present), matrix)]

\* an argmax that keeps the last index holding the maximum
argmax_last(sims) ==
    CHOOSE i \in DOMAIN sims :
        /\ \A j \in DOMAIN sims : sims[j] <= sims[i]
        /\ \A j \in DOMAIN sims : j > i => sims[j] < sims[i]

\* np.argmax: the first index holding the maximum
argmax(sims) ==
    CHOOSE i \in DOMAIN sims :
        /\ \A j \in DOMAIN sims : sims[j] <= sims[i]
        /\ \A j \in DOMAIN sims : j < i => sims[j] < sims[i]

\* find_best_matching_task, given the similarities of the query to the rows
\* of tfidf_matrix
find_best_matching_task(mappings, matrix, sims) ==
    IF matrix = None \/ mappings = None THEN None
    ELSE IF "task_templates" \notin mappings.sheets THEN None
    ELSE LET best_match_idx == argmax(sims)
             best_similarity == sims[best_match_idx]
         IN  IF best_similarity < TFIDF_MIN_SIMILARITY THEN None
             ELSE IF best_match_idx > Len(mappings.task_templates)
             THEN None   \* iloc raises IndexError, caught
             ELSE [kind |-> "task",
                   task |-> mappings.task_templates[best_match_idx],
                   similarity_score |-> best_similarity]

\* the similarity vectors of a query: one score per row of the matrix
LowestOf(values) == CHOOSE v \in values : \A w \in values : v <= w

SimVectorsOver(rows, values) ==
    UNION { { [i \in rows |-> IF i \in hits THEN score[i] ELSE LowestOf(values)] :
                score \in [hits -> values \ {LowestOf(values)}] } :
            hits \in {h \in SUBSET rows : Cardinality(h) \in HitCounts} }

SimVectors(matrix, values) ==
    IF matrix = None THEN {<<>>} ELSE SimVectorsOver(DOMAIN matrix.docs, values)

\* the text of a template that goes into its document; the templates of one
\* workbook of the model differ in no other text column
Document(t) == t.task_name

HighestOf(values) == CHOOSE v \in values : \A w \in values : w <= v

\* the similarity vectors of the query made of the name and keywords of row
\* k: the documents equal to the document of row k get one and the same
\* score, the highest; the other rows score lower
SelfSimVectors(mappings, k, values) ==
    LET rows == DOMAIN mappings.task_templates
        own == {i \in rows : Document(mappings.task_templates[i])
                                = Document(mappings.task_templates[k])}
    IN  { [i \in rows |-> IF i \in own THEN HighestOf(values) ELSE low[i]] :
            low \in [rows \ own -> values \ {HighestOf(values)}] }

ByStepOrder(a, b) == a.step_order < b.step_order

\* get_task_steps: the rows of the task, sorted by step_order; [] without
\* the sheet and when the store never loaded (the TypeError is caught)
get_task_steps(mappings, task_id) ==
    IF mappings = None THEN <<>>
    ELSE IF "action_steps" \notin mappings.sheets THEN <<>>
    ELSE SortSeq(SelectSeq(mappings.action_steps, LAMBDA r : r.task_id = task_id),
                 ByStepOrder)

\* get_element_selector: the first row of that element id, or None; None
\* without the sheet and when the store never loaded (the TypeError is caught)
get_element_selector(mappings, element_id) ==
    IF mappings = None THEN None
    ELSE IF "element_selectors" \notin mappings.sheets THEN None
    ELSE LET rows == SelectSeq(mappings.element_selectors,
                               LAMBDA r : r.element_id = element_id)
         IN  IF rows = <<>> THEN None ELSE rows[1]

----------------------------------------------------------------------------
(* InputHandler (input_handler.py).  A text is a sequence of tokens: words *)
(* (runs of characters other than white space) and " ", one white-space    *)
(* character.                                                              *)

NoInput == [kind |-> "None"]
Audio(ok, heard) == [kind |-> "audio", ok |-> ok, text |-> heard]
Bytes(utf8, content) == [kind |-> "bytes", ok |-> utf8, text |-> content]
Raised(msg) == [kind |-> "raised", msg |-> msg]
Text(t) == [kind |-> "text", text |-> t]

\* the white space of the texts: a blank and a line break.  str.strip
\* removes both and `\s` matches both; `.` matches the blank only
WhiteSpace == {" ", "\n"}

RECURSIVE lstrip(_)
lstrip(t) == IF t # <<>> /\ Head(t) \in WhiteSpace THEN lstrip(Tail(t)) ELSE t

RECURSIVE rstrip(_)
rstrip(t) ==
    IF t # <<>> /\ t[Len(t)] \in WhiteSpace THEN rstrip(SubSeq(t, 1, Len(t) - 1)) ELSE t

\* str.strip
strip(t) == rstrip(lstrip(t))

process_text_input(text) ==
    IF strip(text) = <<>> THEN Raised("Text input cannot be empty") ELSE Text(strip(text))

\* the recognizer either transcribes the audio or raises; the text is not stripped
process_voice_input(audio) ==
    IF audio.ok THEN Text(audio.text) ELSE Raised("Could not understand audio")

\* process_file_input without the test for an empty content
process_file_input_no_empty_check(file) ==
    IF ~file.ok THEN Raised("File must be a text file (UTF-8 encoded)")
    ELSE Text(strip(file.text))

process_file_input(file) ==
    IF ~file.ok THEN Raised("File must be a text file (UTF-8 encoded)")
    ELSE IF strip(file.text) = <<>> THEN Raised("Error processing file: File is empty")
    ELSE Text(strip(file.text))

\* the user input process_input works on: a text, a raised error, or nothing
ReadInput(text_input, voice_input, file_input) ==
    IF strip(text_input) # <<>> THEN process_text_input(text_input)
    ELSE IF voice_input # NoInput THEN process_voice_input(voice_input)
    ELSE IF file_input # NoInput THEN process_file_input(file_input)
    ELSE NoInput

\* the requests of the model: <<text, voice, file>>
Requests ==
    { << <<" ", "go", " ">>, NoInput, NoInput >>,
      << <<" ">>, NoInput, NoInput >>,
      << <<>>, Audio(TRUE, <<"go">>), NoInput >>,
      << <<>>, Audio(FALSE, <<>>), Bytes(TRUE, <<"go">>) >>,
      << <<" ">>, NoInput, Bytes(TRUE, <<"go", " ">>) >>,
      << <<>>, NoInput, Bytes(TRUE, <<" ">>) >>,
      << <<>>, NoInput, Bytes(FALSE, <<>>) >> }

----------------------------------------------------------------------------
(* TaskProcessor.extract_dynamic_values (task_processor.py).  A value of   *)
(* the returned dict is a string: a sequence of tokens, or of the pieces   *)
(* it was concatenated from.                                               *)

Dict(items) == [kind |-> "dict", items |-> items]
NoItems == [f \in {} |-> <<>>]

Min(S) == CHOOSE x \in S : \A y \in S : x <= y

\* the first position from p on that holds no white space, Len + 1 if none
SkipSpaces(text, p) ==
    LET words == {i \in p..Len(text) : text[i] \notin WhiteSpace}
    IN  IF words = {} THEN Len(text) + 1 ELSE Min(words)

\* re.search of a pattern that begins with kw, given the positions at which
\* the rest of the pattern matches: the leftmost kw among them; 0 when there
\* is none
Search(text, kw, matches) ==
    LET hits == {p \in matches : lower(text[p]) = kw}
    IN  IF hits = {} THEN 0 ELSE Min(hits)

\* `\s+to\s+` right after position e
ToFollows(text, e) ==
    LET a == SkipSpaces(text, e + 1)
    IN  /\ a > e + 1
        /\ a + 1 <= Len(text)
        /\ lower(text[a]) = "to"
        /\ text[a + 1] \in WhiteSpace

\* `kw\s+(.+?)(?:\s+to\s+|\s*$)` tried with kw at p: whether it matches,
\* and group(1).  `\s+` takes all the white space after kw and the lazy group
\* runs, within its line, to the first character followed by `\s+to\s+` or
\* by nothing but white space (`$` is the end of the text).  When there is
\* no such character, `\s+` gives white space back and the group is one
\* blank of it that is followed by `\s+to\s+` or by the end.
LazyClause(text, p) ==
    LET q == SkipSpaces(text, p + 1)
        ClauseEnds(e) == ToFollows(text, e) \/ SkipSpaces(text, e + 1) > Len(text)
        ends == {e \in q..Len(text) :
                    /\ \A i \in q..e : text[i] # "\n"
                    /\ ClauseEnds(e)}
        blanks == {j \in (p + 2)..(q - 1) : text[j] = " " /\ ClauseEnds(j)}
    IN  IF q = p + 1 THEN [found |-> FALSE, group |-> <<>>]
        ELSE IF ends # {} THEN [found |-> TRUE, group |-> SubSeq(text, q, Min(ends))]
        ELSE IF blanks # {} THEN [found |-> TRUE, group |-> <<" ">>]
        ELSE [found |-> FALSE, group |-> <<>>]

\* the optional group `(?:w1\s+w2\s+ ...)?` tried at q: the position of the
\* first word after it, Len + 1 if only white space follows, 0 if it does
\* not match
RECURSIVE AfterWords(_, _, _)
AfterWords(text, q, words) ==
    IF words = <<>> THEN q
    ELSE IF /\ q + 1 <= Len(text)
            /\ lower(text[q]) = Head(words)
            /\ text[q + 1] \in WhiteSpace
    THEN AfterWords(text, SkipSpaces(text, q + 1), Tail(words))
    ELSE 0

\* `kw\s+(?:w1\s+ ...)?(.+)` tried with kw at p: whether it matches, and
\* group(1).  The greedy group runs from the first word after the white
\* space (after the optional words, when they are there and a character of
\* the line follows them) to the end of its line.  When only white space
\* follows, `\s+` gives white space back and the group is the last blank
\* that is not the first character of that white space.
GreedyClause(text, p, words) ==
    LET q == SkipSpaces(text, p + 1)
        q2 == AfterWords(text, q, words)
        Line(h) == LET breaks == {i \in h..Len(text) : text[i] = "\n"}
                   IN  SubSeq(text, h, IF breaks = {} THEN Len(text) ELSE Min(breaks) - 1)
        last == CHOOSE i \in 0..Len(text) :
                    /\ i # 0 => text[i] \notin WhiteSpace
                    /\ \A j \in (i + 1)..Len(text) : text[j] \in WhiteSpace
        blanks == {j \in (last + 2)..Len(text) : text[j] = " "}
    IN  IF q = p + 1 THEN [found |-> FALSE, group |-> <<>>]
        ELSE IF q > Len(text)
        THEN [found |-> blanks # {}, group |-> <<" ">>]
        ELSE IF q2 = 0 \/ words = <<>> THEN [found |-> TRUE, group |-> Line(q)]
        ELSE IF q2 <= Len(text) THEN [found |-> TRUE, group |-> Line(q2)]
        ELSE IF blanks # {} THEN [found |-> TRUE, group |-> <<" ">>]
        ELSE [found |-> TRUE, group |-> Line(q)]

\* the words of the model the patterns of the emails, URLs and site names match
IsEmail(w) == w \in {"john@x.com", "amy@y.org"}
IsUrl(w) == w \in {"https://a.com", "http://b.org"}
IsWebsite(w) ==
    w \in {"a.com", "httpbin.org", "c.net", "https://a.com", "http://b.org",
           "john@x.com", "amy@y.org"}
\* str.startswith('http')
StartsWithHttp(w) == w \in {"https://a.com", "http://b.org", "httpbin.org"}

\* email_subject whose clause runs to the end of its line
email_subject_to_end(text) ==
    LET matches == {p \in DOMAIN text : GreedyClause(text, p, <<>>).found}
        Clause(kw) == strip(GreedyClause(text, Search(text, kw, matches), <<>>).group)
    IN  IF Search(text, "regarding", matches) # 0 THEN Clause("regarding")
        ELSE IF Search(text, "about", matches) # 0 THEN Clause("about")
        ELSE IF Search(text, "subject", matches) # 0 THEN Clause("subject")
        ELSE <<"Inquiry">>

\* email_subject: the patterns regarding, about, subject are tried in this
\* order; the first that matches gives group(1).strip()
email_subject(text) ==
    LET matches == {p \in DOMAIN text : LazyClause(text, p).found}
        Clause(kw) == strip(LazyClause(text, Search(text, kw, matches)).group)
    IN  IF Search(text, "regarding", matches) # 0 THEN Clause("regarding")
        ELSE IF Search(text, "about", matches) # 0 THEN Clause("about")
        ELSE IF Search(text, "subject", matches) # 0 THEN Clause("subject")
        ELSE <<"Inquiry">>

\* search_query: the patterns search, find, look, google are tried in this
\* order and the first that matches gives group(1).strip(); the whole input
\* when none matches
search_query(text) ==
    LET Match(kw, words) ==
            LET matches == {i \in DOMAIN text : GreedyClause(text, i, words).found}
                p == Search(text, kw, matches)
            IN  [found |-> p # 0,
                 query |-> IF p = 0 THEN <<>>
                           ELSE strip(GreedyClause(text, p, words).group)]
    IN  IF Match("search", <<"for">>).found
        THEN Match("search", <<"for">>).query
        ELSE IF Match("find", <<"information", "about">>).found
        THEN Match("find", <<"information", "about">>).query
        ELSE IF Match("look", <<"up">>).found
        THEN Match("look", <<"up">>).query
        ELSE IF Match("google", <<>>).found
        THEN Match("google", <<>>).query
        ELSE text

\* where the verb at p (`go\s+to\s+`, `visit\s+`, `open\s+`) is followed by
\* a site name: the position of that name, else 0
SiteAfterVerb(text, p) ==
    LET q == IF lower(text[p]) = "go" THEN AfterWords(text, p, <<"go", "to">>)
             ELSE IF lower(text[p]) \in {"visit", "open"}
             THEN AfterWords(text, p, <<lower(text[p])>>)
             ELSE 0
    IN  IF q # 0 /\ q <= Len(text) /\ IsWebsite(text[q]) THEN q ELSE 0

\* the position of the website of the two website_patterns, the one with a
\* verb tried first; 0 when neither matches
Website(text) ==
    LET verbs == {p \in DOMAIN text : SiteAfterVerb(text, p) # 0}
        sites == {p \in DOMAIN text : IsWebsite(text[p])}
    IN  IF verbs # {} THEN SiteAfterVerb(text, Min(verbs))
        ELSE IF sites = {} THEN 0 ELSE Min(sites)

\* target_url of a text without a literal URL
website_url(w) == IF StartsWithHttp(w) THEN <<w>> ELSE <<"https://", w>>

\* the body of the try block: the dict built so far and whether an exception
\* ended it (task_info.get raises AttributeError when task_info is None)
ExtractBody(user_input, task_info) ==
    LET task_id == IF task_info = None THEN ""
                   ELSE IF "task_id" \in DOMAIN task_info.task
                   THEN task_info.task.task_id ELSE ""
    IN  IF task_info = None THEN [raised |-> TRUE, values |-> Dict(NoItems)]
        ELSE IF task_id \notin {"email_compose", "web_search", "web_navigate"}
        THEN [raised |-> FALSE, values |-> Dict(NoItems)]
        ELSE IF task_id = "email_compose"
        THEN LET emails == SelectSeq(user_input, IsEmail)
                 fields == {"email_subject"}
                           \cup (IF emails # <<>> THEN {"recipient_email"} ELSE {})
             IN  [raised |-> FALSE,
                  values |-> Dict([f \in fields |->
                                     IF f = "recipient_email" THEN <<emails[1]>>
                                     ELSE email_subject(user_input)])]
        ELSE IF task_id = "web_search"
        THEN [raised |-> FALSE,
              values |-> Dict([f \in {"search_query"} |-> search_query(user_input)])]
        ELSE LET urls == SelectSeq(user_input, IsUrl)
                 fields == IF urls # <<>> \/ Website(user_input) # 0
                           THEN {"target_url"} ELSE {}
             IN  [raised |-> FALSE,
                  values |-> Dict([f \in fields |->
                                     IF urls # <<>> THEN <<urls[1]>>
                                     ELSE website_url(user_input[Website(user_input)])])]

\* extract_dynamic_values without its try/except
extract_dynamic_values_no_try(user_input, task_info) ==
    IF ExtractBody(user_input, task_info).raised THEN Raised("AttributeError")
    ELSE ExtractBody(user_input, task_info).values

\* extract_dynamic_values: the dict is returned whether or not the body raised
extract_dynamic_values(user_input, task_info) == ExtractBody(user_input, task_info).values

----------------------------------------------------------------------------
(* TaskProcessor.process_user_input *)

\* process_user_input without the `if not steps` check
process_user_input_any_steps(user_input, mappings, matrix, sims) ==
    LET matching_task == find_best_matching_task(mappings, matrix, sims)
    IN  IF matching_task = None THEN None
        ELSE [kind |-> "plan", task_info |-> matching_task,
              steps |-> get_task_steps(mappings, matching_task.task.task_id),
              dynamic_values |-> extract_dynamic_values(user_input, matching_task),
              status |-> "ready"]

process_user_input(user_input, mappings, matrix, sims) ==
    LET matching_task == find_best_matching_task(mappings, matrix, sims)
    IN  IF matching_task = None THEN None
        ELSE LET steps == get_task_steps(mappings, matching_task.task.task_id)
             IN  IF steps = <<>> THEN None
                 ELSE [kind |-> "plan", task_info |-> matching_task,
                       steps |-> steps,
                       dynamic_values |-> extract_dynamic_values(user_input, matching_task),
                       status |-> "ready"]

\* the last line process_user_input writes to its log
PlanLog(mappings, matrix, sims) ==
    LET matching_task == find_best_matching_task(mappings, matrix, sims)
    IN  IF matching_task = None THEN "No matching task found"
        ELSE IF get_task_steps(mappings, matching_task.task.task_id) = <<>>
        THEN "No steps found for task"
        ELSE "Task execution plan created"

----------------------------------------------------------------------------
(* AutomationEngine.execute_step (automation_engine.py) *)

KnownActions ==
    {"web_navigate", "click", "type", "form_fill", "app_launch", "file_open", "wait"}

\* What the body of execute_step's try block does with a step: the action
\* type of an empty cell is a float and .lower() raises on it; a known type
\* is handed to its primitive, which answers True or False (driver_ok).
StepOutcome(step, driver_ok) ==
    IF step.action = NaN THEN "raised"
    ELSE IF lower(step.action) \in KnownActions
    THEN (IF driver_ok THEN "ok" ELSE "failed")
    ELSE "unknown"

\* execute_step: True only when the primitive answered True; an unknown
\* action type and any exception give False
execute_step(step, driver_ok) == StepOutcome(step, driver_ok) = "ok"

----------------------------------------------------------------------------
(* The primitives web_navigate and wait_for_element (automation_engine.py) *)
(* A string is the sequence of the pieces it is written with.  A value of  *)
(* a step's dict is a string, an integer or the float of an empty cell.    *)

Str(s) == [t |-> "str", v |-> s]
Num(n) == [t |-> "int", n |-> n]
EmptyCell == [t |-> "float"]
NoParameters == [key \in {} |-> Str(<<>>)]

\* url.startswith(('http://', 'https://'))
StartsWithProtocol(url) == url # <<>> /\ url[1] \in {"http://", "https://"}

\* selector.startswith(('div', 'button', 'input', '.'))
StartsLikeElement(selector) ==
    selector # <<>> /\ selector[1] \in {"div", "button", "input", "."}

\* what a primitive answers and what it asked of the driver and the clock
Answer(result, got, waited, slept) ==
    [result |-> result, got |-> got, waited |-> waited, slept |-> slept]

\* web_navigate: driver tells whether there is a WebDriver, page_ok
\* whether driver.get and the wait for readyState went through.  A url
\* that is no string raises at startswith.
web_navigate(driver, url, parameters, page_ok) ==
    IF ~driver THEN Answer(FALSE, <<>>, <<>>, <<>>)
    ELSE LET given == IF DOMAIN parameters # {} /\ "url" \in DOMAIN parameters
                      THEN parameters["url"] ELSE url
         IN  IF given.t # "str" THEN Answer(FALSE, <<>>, <<>>, <<>>)
             ELSE Answer(page_ok,
                         << IF StartsWithProtocol(given.v) THEN given.v
                            ELSE <<"https://">> \o given.v >>,
                         <<>>, <<>>)

\* the default of parameters.get('timeout', 5)
DefaultTimeout == 5

\* wait_for_element: found tells whether the element showed up in time.
\* time.sleep and WebDriverWait raise on a timeout that is no number,
\* time.sleep on a negative one.
wait_for_element(driver, selector, parameters, found) ==
    LET wait_time == IF DOMAIN parameters # {} /\ "timeout" \in DOMAIN parameters
                     THEN parameters["timeout"] ELSE Num(DefaultTimeout)
    IN  IF driver /\ selector.t # "str" THEN Answer(FALSE, <<>>, <<>>, <<>>)
        ELSE IF driver /\ StartsLikeElement(selector.v)
        THEN (IF wait_time.t # "int" THEN Answer(FALSE, <<>>, <<>>, <<>>)
              ELSE Answer(found, <<>>, <<wait_time.n>>, <<>>))
        ELSE IF wait_time.t = "int" /\ wait_time.n >= 0
        THEN Answer(TRUE, <<>>, <<>>, <<wait_time.n>>)
        ELSE Answer(FALSE, <<>>, <<>>, <<>>)

\* a step as execute_step reads it
StepDict(action, selector, parameters) ==
    [action |-> action, selector |-> selector, parameters |-> parameters]

\* the primitive execute_step hands the step to; env is what the driver
\* and the desktop answer
Primitive(driver, step, env) ==
    IF lower(step.action) = "web_navigate"
    THEN web_navigate(driver, step.selector, step.parameters, env)
    ELSE IF lower(step.action) = "wait"
    THEN wait_for_element(driver, step.selector, step.parameters, env)
    ELSE Answer(env, <<>>, <<>>, <<>>)

StepCall(driver, step) == [kind |-> "step", driver |-> driver, step |-> step]

Stepped(driver, step, result, answer) ==
    [kind |-> "stepped", driver |-> driver, step |-> step, result |-> result,
     got |-> answer.got, waited |-> answer.waited, slept |-> answer.slept]

\* execute_step called with the step at hand
ExecuteStep(env) ==
    /\ program = "catalogue"
    /\ call # None /\ call.kind = "step"
    /\ LET answer == Primitive(call.driver, call.step, env)
           ran == lower(call.step.action) \in KnownActions
       IN  call' = Stepped(call.driver, call.step,
                           execute_step(call.step, answer.result),
                           IF ran THEN answer ELSE Answer(FALSE, <<>>, <<>>, <<>>))
    /\ UNCHANGED <<program, last_match, varsA, varsApp, varsStore>>

\* the urls, selectors and parameters of the steps that are executed
Urls == { Str(<<>>), Str(<<"gmail.com">>), Str(<<"https://", "gmail.com">>),
          Str(<<"http://", "a.com">>), EmptyCell }

UrlParameters ==
    { NoParameters } \cup { [key \in {"url"} |-> u] : u \in Urls \ {EmptyCell} }
    \cup { [key \in {"text"} |-> Str(<<"hello">>)] }

WaitSelectors == { Str(<<"page_load">>), Str(<<"div", "#main">>), Str(<<>>), EmptyCell }

Timeouts == { Num(0), Num(3), Num(10), Str(<<"abc">>), Str(<<>>) }

WaitParameters ==
    { NoParameters } \cup { [key \in {"timeout"} |-> t] : t \in Timeouts }
    \cup { [key \in {"text"} |-> Str(<<"hello">>)] }

StepDicts ==
    { StepDict(a, u, ps) : a \in {"web_navigate", "WEB_NAVIGATE"}, u \in Urls,
                           ps \in UrlParameters }
    \cup { StepDict("wait", sel, ps) : sel \in WaitSelectors, ps \in WaitParameters }
    \cup { StepDict(a, Str(<<"div", "#main">>), NoParameters) : a \in {"click", "navigate"} }

----------------------------------------------------------------------------
(* The automation thread of app.py: run_automation builds its engine with  *)
(* AutomationEngine(status_callback=self.update_status) and calls          *)
(* execute_task on it.  A status is the sequence of the pieces its text is *)
(* written with.                                                           *)

Ready == <<"Ready">>

\* f"Error: {str(e)}"
ErrorStatus(e) == <<"Error: ">> \o e

\* the parameters of AutomationEngine.__init__ besides self
InitParameters == {}

\* the methods of the class AutomationEngine
EngineMethods ==
    {"setup_selenium", "execute_step", "web_navigate", "click_element",
     "click_web_element", "click_desktop_element", "find_and_click_by_image",
     "type_text", "type_web_text", "type_desktop_text", "fill_form", "fill_email_form",
     "fill_generic_form", "launch_application", "open_file", "wait_for_element",
     "take_screenshot", "cleanup"}

\* AutomationEngine(**keywords): a keyword that is no parameter of __init__
\* raises TypeError before the body of __init__ runs
AutomationEngine(keywords) ==
    IF keywords \subseteq InitParameters
    THEN [kind |-> "engine", msg |-> <<>>]
    ELSE Raised(<<"AutomationEngine.__init__() got an unexpected keyword argument '",
                  CHOOSE k \in keywords : k \notin InitParameters, "'">>)

\* engine.execute_task(...): the attribute lookup raises AttributeError
CallMethod(name) ==
    IF name \in EngineMethods THEN [kind |-> "called", msg |-> <<>>]
    ELSE Raised(<<"'AutomationEngine' object has no attribute '", name, "'">>)

\* a thread of run_automation: the plan it was started with, where it
\* stands, the exception its try block raised, the statuses it has written.
\* snapshot: the store the plan was made from
NewRun(plan, mappings) ==
    [plan |-> plan, snapshot |-> mappings, pc |-> "created", error |-> <<>>,
     statuses |-> <<>>]

----------------------------------------------------------------------------
(* Actions of the application (app.py) *)

\* the arguments of a process_input call: <<text, voice, file>>
Asks(req) == [kind |-> "process_input", request |-> req]

\* start_automation_thread: a new daemon thread for the plan, started at once
start_automation_thread(threads, execution_plan, mappings) ==
    Append(threads, NewRun(execution_plan, mappings))

\* process_input up to its return, or, with a plan, up to the return of
\* start_automation_thread: Thread.start() lets the new thread run before
\* the handler goes on
ProcessInput(req, sims, limit) ==
    /\ program = "app"
    /\ Len(runs) < limit
    /\ call' = Asks(req)
    /\ LET user_input == ReadInput(req[1], req[2], req[3])
       IN  IF user_input = NoInput
           THEN /\ last_response' = [task |-> "No input provided", status |-> "Ready",
                                     logged |-> "-"]
                /\ UNCHANGED <<runs, handlers>>
           ELSE IF user_input.kind = "raised"
           THEN /\ last_response' = [task |-> "Failed to process input", status |-> "Error",
                                     logged |-> "Error processing input"]
                /\ UNCHANGED <<runs, handlers>>
           ELSE LET execution_plan == process_user_input(user_input.text, ui_mappings,
                                                         tfidf_matrix, sims)
                IN  IF execution_plan = None
                    THEN /\ last_response' = [task |-> "Could not understand the task",
                                              status |-> "Ready",
                                              logged |-> PlanLog(ui_mappings, tfidf_matrix, sims)]
                         /\ UNCHANGED <<runs, handlers>>
                    ELSE /\ runs' = start_automation_thread(runs, execution_plan, ui_mappings)
                         /\ handlers' =
                               Append(handlers,
                                      [task |-> execution_plan.task_info.task.task_name,
                                       status |-> "Processing...",
                                       logged |-> PlanLog(ui_mappings, tfidf_matrix, sims)])
                         /\ UNCHANGED last_response
    /\ UNCHANGED <<program, automation_engine, current_status, last_match, varsStore, varsA>>

\* process_input after start_automation_thread: the task name is read from
\* the plan and the response is returned
ProcessInputReturn(h) ==
    /\ program = "app"
    /\ h \in DOMAIN handlers
    /\ last_response' = handlers[h]
    /\ handlers' = SubSeq(handlers, 1, h - 1) \o SubSeq(handlers, h + 1, Len(handlers))
    /\ UNCHANGED <<program, call, runs, automation_engine, current_status, last_match,
                   varsStore, varsA>>

\* a request once the run of the one before has ended
Request ==
    /\ handlers = <<>>
    /\ \A r \in DOMAIN runs : runs[r].pc = "done"
    /\ \E req \in Requests : \E sims \in SimVectors(tfidf_matrix, AppSimValues) :
          ProcessInput(req, sims, MaxRuns)

\* a request once the runs before it have ended, one after another
RequestAfterRun ==
    /\ handlers = <<>>
    /\ \A r \in DOMAIN runs : runs[r].pc = "done"
    /\ \E req \in Requests : \E sims \in SimVectors(tfidf_matrix, AppSimValues) :
          ProcessInput(req, sims, MaxThreads)

\* a request at any time
RequestAnyTime ==
    \E req \in Requests : \E sims \in SimVectors(tfidf_matrix, AppSimValues) :
        ProcessInput(req, sims, MaxThreads)

\* run_automation whose thread drops the matcher's index when it starts
RunStart_dropping_index(r) ==
    /\ program = "app"
    /\ runs[r].pc = "created"
    /\ tfidf_matrix' = None
    /\ runs' = [runs EXCEPT ![r].pc = "raised",
                            ![r].error = AutomationEngine({"status_callback"}).msg]
    /\ UNCHANGED <<program, call, automation_engine, current_status, last_response,
                   handlers, last_match, xlsx, ui_mappings, writes, varsA>>

\* run_automation, the try block: the engine is built with the keyword
\* status_callback and execute_task is called on it.  Whatever raises is
\* kept for the except branch; the engine is assigned only when it was built.
RunStart(r) ==
    /\ program = "app"
    /\ runs[r].pc = "created"
    /\ LET engine == AutomationEngine({"status_callback"})
           success == CallMethod("execute_task")
       IN  IF engine.kind = "raised"
           THEN /\ runs' = [runs EXCEPT ![r].pc = "raised", ![r].error = engine.msg]
                /\ UNCHANGED automation_engine
           ELSE /\ runs' = [runs EXCEPT ![r].pc = "raised", ![r].error = success.msg]
                /\ automation_engine' = r
    /\ UNCHANGED <<program, call, current_status, last_response, handlers, last_match,
                   varsStore, varsA>>

\* run_automation, the except branch: the error is logged and becomes the status
RunFinish(r) ==
    /\ program = "app"
    /\ runs[r].pc = "raised"
    /\ runs' = [runs EXCEPT ![r].pc = "done",
                            ![r].statuses = Append(@, ErrorStatus(runs[r].error))]
    /\ current_status' = ErrorStatus(runs[r].error)
    /\ UNCHANGED <<program, call, automation_engine, last_response, handlers, last_match,
                   varsStore, varsA>>

\* the texts a caller hands to update_status
StatusTexts ==
    { <<"Step 1/2: Navigate to target website">>, <<"Step 2/2: Click the button">> }

\* update_status called on the application: the text becomes the status
UpdateStatus(status) ==
    /\ program = "app"
    /\ current_status # status
    /\ current_status' = status
    /\ UNCHANGED <<program, call, runs, automation_engine, last_response, handlers,
                   last_match, varsStore, varsA>>

----------------------------------------------------------------------------
(* Actions on the template store of the application *)

UserBooks == {to_excel(FormFrames), to_excel(FormFramesV2), to_excel(NoTemplateFrames)}

\* the user replaces the workbook on disk, damages it or deletes it
ExternalWrite(book, limit) ==
    /\ program = "app"
    /\ Len(writes) < limit
    /\ book # xlsx
    /\ xlsx' = book
    /\ writes' = Append(writes, book)
    /\ UNCHANGED <<program, call, ui_mappings, tfidf_matrix, varsApp, last_match, varsA>>

EditWorkbook ==
    \E book \in UserBooks \cup {Corrupt, Missing} : ExternalWrite(book, MaxWrites)

EditStoreWorkbook ==
    \E book \in UserBooks \cup {Corrupt, Missing} : ExternalWrite(book, MaxEdits)

\* a load that hands the rows of the new catalogue to the plans in progress
Reload_into_plans ==
    /\ program = "app"
    /\ LET after == load_ui_mappings(xlsx, ui_mappings, tfidf_matrix)
       IN  /\ xlsx' = after.xlsx
           /\ ui_mappings' = after.ui_mappings
           /\ tfidf_matrix' = after.tfidf_matrix
           /\ runs' = [r \in DOMAIN runs |->
                         IF runs[r].pc = "done" \/ after.ui_mappings = None THEN runs[r]
                         ELSE [runs[r] EXCEPT !.plan.steps =
                                  get_task_steps(after.ui_mappings,
                                                 runs[r].plan.task_info.task.task_id)]]
    /\ UNCHANGED <<program, call, writes, automation_engine, current_status, last_response,
                   handlers, last_match, varsA>>

\* load_ui_mappings called again on the store
Reload ==
    /\ program = "app"
    /\ LET after == load_ui_mappings(xlsx, ui_mappings, tfidf_matrix)
       IN  /\ xlsx' = after.xlsx
           /\ ui_mappings' = after.ui_mappings
           /\ tfidf_matrix' = after.tfidf_matrix
    /\ UNCHANGED <<program, call, writes, varsApp, last_match, varsA>>

\* the ids a caller asks the store for: those of the workbooks and one more
LookupTaskIds ==
    {"email_compose", "fill_form", "idle_task", "no_such_task"}

LookupElementIds == {"compose_button", "go_button", "name_field", "no_such_element"}

\* a lookup as seen from outside: the function, the store it was asked of,
\* the id asked for, the answer
Lookup(function, store, id, result) ==
    [kind |-> "lookup", function |-> function, store |-> store, id |-> id,
     result |-> result]

\* UITreeManager.get_task_steps called on the store
GetTaskSteps(task_id) ==
    /\ program = "app"
    /\ call' = Lookup("get_task_steps", ui_mappings, task_id,
                      get_task_steps(ui_mappings, task_id))
    /\ UNCHANGED <<program, writes, varsApp, varsStore, last_match, varsA>>

\* UITreeManager.get_element_selector called on the store
GetElementSelector(element_id) ==
    /\ program = "app"
    /\ call' = Lookup("get_element_selector", ui_mappings, element_id,
                      get_element_selector(ui_mappings, element_id))
    /\ UNCHANGED <<program, writes, varsApp, varsStore, last_match, varsA>>

----------------------------------------------------------------------------
(* The action catalogue: UITreeManager of ui_tree.py.  Names and keywords  *)
(* are sequences of lower-case words (the vectorizer lower-cases its       *)
(* documents); a keywords cell separates its keywords with "," tokens.     *)

Action(id, cat, name, keywords, difficulty) ==
    [action_id |-> id, category_id |-> cat, action_name |-> name, keywords |-> keywords,
     difficulty |-> difficulty]

StepA(sid, aid, ord, description, typ, selector, parameters) ==
    [step_id |-> sid, action_id |-> aid, step_order |-> ord,
     step_description |-> description, action_type |-> typ,
     selector |-> selector, parameters |-> parameters]

\* categories_data, actions_data, steps_data of create_default_mappings
DefaultFramesA ==
    [kind |-> "bookA",
     categories |-> <<"email", "web", "file", "app">>,
     actions |->
        << Action("compose_email", "email", <<"compose", "email">>,
                  <<"email", ",", "compose", ",", "write", ",", "create", ",", "draft">>, 2),
           Action("send_email", "email", <<"send", "email">>,
                  <<"send", ",", "email", ",", "submit", ",", "deliver">>, 3),
           Action("open_website", "web", <<"open", "website">>,
                  <<"open", ",", "website", ",", "browse", ",", "go", "to", ",", "navigate">>, 1),
           Action("click_element", "web", <<"click", "element">>,
                  <<"click", ",", "press", ",", "select", ",", "button">>, 1),
           Action("type_text", "web", <<"type", "text">>,
                  <<"type", ",", "enter", ",", "input", ",", "write">>, 1),
           Action("open_file", "file", <<"open", "file">>,
                  <<"open", ",", "file", ",", "document", ",", "folder">>, 1) >>,
     steps |->
        << StepA(1, "compose_email", 1, "Open Gmail website",
                 "web_navigate", "https://gmail.com", "{}"),
           StepA(2, "compose_email", 2, "Click on Compose button",
                 "click", "div[Compose]", "{}"),
           StepA(3, "compose_email", 3, "Fill email details",
                 "form_fill", "form", "{recipient,subject,body}"),
           StepA(4, "send_email", 1, "Click Send button", "click", "div[Send]", "{}"),
           StepA(5, "open_website", 1, "Open browser and navigate to URL",
                 "web_navigate", "url_parameter", "{url}"),
           StepA(6, "click_element", 1, "Locate and click on specified element",
                 "click", "element_selector", "{selector}"),
           StepA(7, "type_text", 1, "Enter text in input field",
                 "type", "input_field", "{text}"),
           StepA(8, "open_file", 1, "Open file explorer",
                 "app_launch", "explorer.exe", "{}"),
           StepA(9, "open_file", 2, "Navigate to file location",
                 "navigate", "file_path", "{path}"),
           StepA(10, "open_file", 3, "Select and open file",
                 "file_open", "file_name", "{filename}") >>]

\* A workbook of the user with a single action whose text is one word
SingleFramesA ==
    [kind |-> "bookA",
     categories |-> <<"web">>,
     actions |-> << Action("press_it", "web", <<"click">>, <<",">>, 1) >>,
     steps |-> << StepA(1, "press_it", 1, "Press the button", "click", "button", "{}") >>]

\* The same workbook with the parameters cell of its step left empty
BlankFramesA ==
    [kind |-> "bookA",
     categories |-> <<"web">>,
     actions |-> << Action("press_it", "web", <<"click">>, <<",">>, 1) >>,
     steps |-> << StepA(1, "press_it", 1, "Press the button", "click", "button", NaN) >>]

\* A workbook whose second action has an empty keywords cell
PartialFramesA ==
    [kind |-> "bookA",
     categories |-> <<"web">>,
     actions |-> << Action("press_it", "web", <<"click">>, <<",">>, 1),
                    Action("tap_it", "web", <<"tap">>, <<NaN>>, 1),
                    Action("open_file", "file", <<"open", "file">>, <<"open">>, 1) >>,
     steps |-> << StepA(1, "press_it", 1, "Press the button", "click", "button", "{}"),
                  StepA(2, "tap_it", 1, "Press the button", "click", "button", "{}") >>]

\* A workbook with the sheets Categories and Actions and no sheet Steps
NoStepsSheetA ==
    [kind |-> "bookA",
     categories |-> <<"web">>,
     actions |-> << Action("press_it", "web", <<"click">>, <<",">>, 1) >>]

\* the parameters cells json.loads decodes; on any other text it raises
\* JSONDecodeError, on an empty cell (NaN, a float) TypeError
JsonCells ==
    {"{}", "{recipient,subject,body}", "{url}", "{selector}", "{text}", "{path}",
     "{filename}"}

\* json.loads of the parameters cells of the model: the dict as a set of pairs
json_loads(cell) ==
    CASE cell = "{}" -> {}
      [] cell = "{recipient,subject,body}" ->
            {<<"recipient", "email_param">>, <<"subject", "subject_param">>,
             <<"body", "body_param">>}
      [] cell = "{url}" -> {<<"url", "url_param">>}
      [] cell = "{selector}" -> {<<"selector", "selector_param">>}
      [] cell = "{text}" -> {<<"text", "text_param">>}
      [] cell = "{path}" -> {<<"path", "path_param">>}
      [] cell = "{filename}" -> {<<"filename", "filename_param">>}

\* str.split(','), each piece stripped: the keywords of a keywords cell
RECURSIVE split(_)
split(cell) ==
    LET commas == {i \in DOMAIN cell : cell[i] = ","}
    IN  IF commas = {} THEN <<cell>>
        ELSE LET c == CHOOSE i \in commas : \A j \in commas : i <= j
             IN  <<SubSeq(cell, 1, c - 1)>> \o split(SubSeq(cell, c + 1, Len(cell)))

ByStepOrderA(a, b) == a.step_order < b.step_order

\* the columns process_mappings reads of a row of the sheets Actions and Steps
ActionColumns ==
    {"action_id", "action_name", "category_id", "keywords", "difficulty"}
StepColumns ==
    {"step_id", "action_id", "step_order", "step_description", "action_type",
     "selector", "parameters"}

\* the rows of steps_df of an action, sorted by step_order
StepsOfRow(frames, action) ==
    SortSeq(SelectSeq(frames.steps, LAMBDA st : st.action_id = action.action_id),
            ByStepOrderA)

\* `json.loads(step['parameters']) if step['parameters'] else {}`
step_parameters(cell) == IF cell = "" THEN {} ELSE json_loads(cell)

\* the body of the loop of process_mappings raises on this row of actions_df:
\* a column is missing (KeyError), json.loads raises on a parameters cell
\* that is not empty text, or the keywords cell is empty (NaN has no split)
RowRaises(frames, action) ==
    \/ ~(ActionColumns \subseteq DOMAIN action)
    \/ \E j \in DOMAIN frames.steps :
          /\ ~(StepColumns \subseteq DOMAIN frames.steps[j])
          /\ \/ ~({"action_id", "step_order"} \subseteq DOMAIN frames.steps[j])
             \/ frames.steps[j].action_id = action.action_id
    \/ \E j \in DOMAIN frames.steps :
          /\ frames.steps[j].action_id = action.action_id
          /\ frames.steps[j].parameters # ""
          /\ frames.steps[j].parameters \notin JsonCells
    \/ action.keywords = <<NaN>>

\* the entry process_mappings stores for a row of actions_df
RowEntry(frames, action) ==
    LET action_steps == StepsOfRow(frames, action)
    IN  [action_id |-> action.action_id,
         action_name |-> action.action_name,
         category |-> action.category_id,
         keywords |-> split(action.keywords),
         difficulty |-> action.difficulty,
         steps |-> [j \in DOMAIN action_steps |->
                      [step_id |-> action_steps[j].step_id,
                       order |-> action_steps[j].step_order,
                       description |-> action_steps[j].step_description,
                       action |-> action_steps[j].action_type,
                       selector |-> action_steps[j].selector,
                       parameters |-> step_parameters(action_steps[j].parameters)]]]

\* dict assignment ui_mappings[action_id] = entry: a known key keeps its place
SetEntry(mappings, entry) ==
    IF \E k \in DOMAIN mappings : mappings[k].action_id = entry.action_id
    THEN [k \in DOMAIN mappings |->
            IF mappings[k].action_id = entry.action_id THEN entry ELSE mappings[k]]
    ELSE Append(mappings, entry)

\* the loop of process_mappings from row k on: an exception ends it, and the
\* except branch only logs, so the entries built so far stay
RECURSIVE ProcessRows(_, _, _)
ProcessRows(frames, k, built) ==
    IF k > Len(frames.actions) THEN built
    ELSE IF RowRaises(frames, frames.actions[k]) THEN built
    ELSE ProcessRows(frames, k + 1, SetEntry(built, RowEntry(frames, frames.actions[k])))

\* process_mappings: the dict is emptied, then one entry per row of
\* actions_df, its steps by step_order
process_mappings(frames) == ProcessRows(frames, 1, <<>>)

\* the file exists and the three read_excel calls of load_ui_mappings succeed
ReadableA(file) ==
    /\ file # Missing /\ file # Corrupt
    /\ {"categories", "actions", "steps"} \subseteq DOMAIN file

\* load_ui_mappings of ui_tree.py: the file, the DataFrames and the dict after it
load_ui_mappingsA(file) ==
    IF file = Missing
    THEN \* create_default_mappings: DataFrames, file, dict
         [xlsxA |-> DefaultFramesA, framesA |-> DefaultFramesA,
          ui_mappingsA |-> process_mappings(DefaultFramesA)]
    ELSE IF ReadableA(file)
    THEN [xlsxA |-> file, framesA |-> file, ui_mappingsA |-> process_mappings(file)]
    ELSE \* read_excel raised: the except branch calls create_default_mappings,
         \* which writes the default workbook over the file
         [xlsxA |-> DefaultFramesA, framesA |-> DefaultFramesA,
          ui_mappingsA |-> process_mappings(DefaultFramesA)]

\* get_all_actions: the entries of the dict in insertion order
get_all_actions(mappings) ==
    [k \in DOMAIN mappings |->
        [action_id |-> mappings[k].action_id, action_name |-> mappings[k].action_name,
         keywords |-> mappings[k].keywords, category |-> mappings[k].category]]

\* get_automation_steps
get_automation_steps(mappings, action_id) ==
    LET hits == SelectSeq(mappings, LAMBDA e : e.action_id = action_id)
    IN  IF hits = <<>> THEN <<>> ELSE hits[1].steps

\* save_mappings_to_excel only logs: the file stays as it is
save_mappings_to_excel(file, mappings) == file

\* add_action_mapping: dict assignment (a known key keeps its place), then save
add_action_mapping(mappings, entry) == SetEntry(mappings, entry)

----------------------------------------------------------------------------
(* TFIDFMatcher (tfidf_matcher.py) *)

RECURSIVE Flatten(_)
Flatten(ss) == IF ss = <<>> THEN <<>> ELSE Head(ss) \o Flatten(Tail(ss))

\* f"{action['action_name']} {' '.join(action['keywords'])}"
ActionText(action) == action.action_name \o Flatten(action.keywords)

\* English stop words among the words of the model
StopWords == {"go", "to"}

\* the vocabulary TfidfVectorizer(ngram_range=(1, 2)) fits on the texts
Features(texts) ==
    UNION { LET doc == SelectSeq(texts[k], LAMBDA w : w \notin StopWords)
            IN  {<<doc[i]>> : i \in DOMAIN doc}
                \cup {<<doc[i], doc[i + 1]>> : i \in 1..(Len(doc) - 1)}
          : k \in DOMAIN texts }

Vectors(rows, cols) == [kind |-> "matrix", rows |-> rows, cols |-> cols]

\* build_action_corpus: ids and texts are replaced first; the vectors only
\* when there is a text and the vectorizer finds a vocabulary (else it raises)
build_action_corpus(mappings, old_vectors) ==
    LET actions == get_all_actions(mappings)
        texts == [k \in DOMAIN actions |-> ActionText(actions[k])]
        ids == [k \in DOMAIN actions |-> actions[k].action_id]
    IN  [action_ids |-> ids, action_texts |-> texts,
         action_vectors |->
            IF texts # <<>> /\ Features(texts) # {}
            THEN Vectors(Len(texts), Cardinality(Features(texts)))
            ELSE old_vectors]

\* `not self.action_vectors`: None is falsy; a sparse matrix has a truth
\* value only when it is 1 x 1 (true, its entry being non-zero), bool()
\* raises ValueError on any other shape
NotVectors(vectors) ==
    IF vectors = None THEN "true"
    ELSE IF vectors.rows = 1 /\ vectors.cols = 1 THEN "false"
    ELSE "raises"

\* np.argsort(similarities)[::-1]: indices by descending score, of equal
\* scores the later index first
argsort_reversed(sims) ==
    SortSeq([i \in DOMAIN sims |-> i],
            LAMBDA i, j : sims[i] > sims[j] \/ (sims[i] = sims[j] /\ i > j))

Take(s, k) == SubSeq(s, 1, IF k < Len(s) THEN k ELSE Len(s))

\* the rows of the matches list of find_best_match: of the top_k rows, those
\* at or above the threshold
matches(top_k, threshold, sims) ==
    SelectSeq(Take(argsort_reversed(sims), top_k), LAMBDA idx : sims[idx] >= threshold)

\* find_best_match: the ids of the top_k actions at or above the threshold
find_best_match(user_input, top_k, threshold, ids, vectors, sims) ==
    IF user_input = <<>> THEN <<>>
    ELSE IF NotVectors(vectors) # "false" THEN <<>>   \* [] or ValueError, caught
    ELSE LET kept == matches(top_k, threshold, sims)
         IN  IF \E k \in DOMAIN kept : kept[k] > Len(ids)
             THEN <<>>   \* IndexError, caught
             ELSE [k \in DOMAIN kept |-> ids[kept[k]]]

\* expand_synonyms replaces substrings: 'mail' inside "email" becomes 'email'
Synonym(w) ==
    CASE w = "email" -> <<"eemail">>
      [] w \in {"write", "enter", "input"} -> <<"type">>
      [] w \in {"press", "select"} -> <<"click">>
      [] w \in {"browse", "navigate"} -> <<"open", "website">>
      [] OTHER -> <<w>>

RECURSIVE expand_synonyms(_)
expand_synonyms(text) ==
    IF text = <<>> THEN <<>>
    ELSE IF Len(text) >= 2 /\ text[1] = "go" /\ text[2] = "to"
    THEN <<"open", "website">> \o expand_synonyms(SubSeq(text, 3, Len(text)))
    ELSE Synonym(Head(text)) \o expand_synonyms(Tail(text))

\* preprocess_input: lower case, punctuation to spaces, single spaces, synonyms
preprocess_input(text) ==
    IF text = <<>> THEN <<>>
    ELSE expand_synonyms(SelectSeq(text, LAMBDA w : w # ","))

\* expand_synonyms on the text as a string, a sequence of characters.
\* The synonyms dict, in the order of its items:
synonyms ==
    << <<<<"m", "a", "i", "l">>, <<"e", "m", "a", "i", "l">>>>,
       <<<<"e", "-", "m", "a", "i", "l">>, <<"e", "m", "a", "i", "l">>>>,
       <<<<"m", "e", "s", "s", "a", "g", "e">>, <<"e", "m", "a", "i", "l">>>>,
       <<<<"l", "e", "t", "t", "e", "r">>, <<"e", "m", "a", "i", "l">>>>,
       <<<<"b", "r", "o", "w", "s", "e">>, <<"o", "p", "e", "n", " ", "w", "e", "b", "s", "i", "t", "e">>>>,
       <<<<"s", "u", "r", "f">>, <<"o", "p", "e", "n", " ", "w", "e", "b", "s", "i", "t", "e">>>>,
       <<<<"n", "a", "v", "i", "g", "a", "t", "e">>, <<"o", "p", "e", "n", " ", "w", "e", "b", "s", "i", "t", "e">>>>,
       <<<<"v", "i", "s", "i", "t">>, <<"o", "p", "e", "n", " ", "w", "e", "b", "s", "i", "t", "e">>>>,
       <<<<"g", "o", " ", "t", "o">>, <<"o", "p", "e", "n", " ", "w", "e", "b", "s", "i", "t", "e">>>>,
       <<<<"l", "a", "u", "n", "c", "h">>, <<"o", "p", "e", "n">>>>,
       <<<<"s", "t", "a", "r", "t">>, <<"o", "p", "e", "n">>>>,
       <<<<"r", "u", "n">>, <<"o", "p", "e", "n">>>>,
       <<<<"e", "x", "e", "c", "u", "t", "e">>, <<"o", "p", "e", "n">>>>,
       <<<<"w", "r", "i", "t", "e">>, <<"t", "y", "p", "e">>>>,
       <<<<"e", "n", "t", "e", "r">>, <<"t", "y", "p", "e">>>>,
       <<<<"i", "n", "p", "u", "t">>, <<"t", "y", "p", "e">>>>,
       <<<<"f", "i", "l", "l">>, <<"t", "y", "p", "e">>>>,
       <<<<"p", "r", "e", "s", "s">>, <<"c", "l", "i", "c", "k">>>>,
       <<<<"h", "i", "t">>, <<"c", "l", "i", "c", "k">>>>,
       <<<<"t", "a", "p">>, <<"c", "l", "i", "c", "k">>>>,
       <<<<"s", "e", "l", "e", "c", "t">>, <<"c", "l", "i", "c", "k">>>> >>

\* str.replace(old, new): the occurrences of old from left to right, the
\* text put in is not searched again
RECURSIVE str_replace(_, _, _)
str_replace(text, old, new) ==
    IF Len(text) < Len(old) THEN text
    ELSE IF SubSeq(text, 1, Len(old)) = old
    THEN new \o str_replace(SubSeq(text, Len(old) + 1, Len(text)), old, new)
    ELSE <<Head(text)>> \o str_replace(Tail(text), old, new)

\* the loop over synonyms.items() from item k on
RECURSIVE ReplaceFrom(_, _)
ReplaceFrom(text, k) ==
    IF k > Len(synonyms) THEN text
    ELSE ReplaceFrom(str_replace(text, synonyms[k][1], synonyms[k][2]), k + 1)

expand_synonyms_chars(text) == ReplaceFrom(text, 1)

\* the spelling of the words of the model
Spell(w) ==
    CASE w = "email" -> <<"e", "m", "a", "i", "l">>
      [] w = "open" -> <<"o", "p", "e", "n">>
      [] w = "website" -> <<"w", "e", "b", "s", "i", "t", "e">>
      [] w = "type" -> <<"t", "y", "p", "e">>
      [] w = "click" -> <<"c", "l", "i", "c", "k">>
      [] w = "write" -> <<"w", "r", "i", "t", "e">>
      [] w = "enter" -> <<"e", "n", "t", "e", "r">>
      [] w = "input" -> <<"i", "n", "p", "u", "t">>
      [] w = "press" -> <<"p", "r", "e", "s", "s">>
      [] w = "select" -> <<"s", "e", "l", "e", "c", "t">>
      [] w = "browse" -> <<"b", "r", "o", "w", "s", "e">>
      [] w = "navigate" -> <<"n", "a", "v", "i", "g", "a", "t", "e">>
      [] w = "go" -> <<"g", "o">>
      [] w = "to" -> <<"t", "o">>
      [] w = "send" -> <<"s", "e", "n", "d">>
      [] w = "file" -> <<"f", "i", "l", "e">>
      [] w = "eemail" -> <<"e", "e", "m", "a", "i", "l">>

RECURSIVE SpellAll(_)
SpellAll(words) ==
    IF words = <<>> THEN <<>>
    ELSE IF Len(words) = 1 THEN Spell(words[1])
    ELSE Spell(words[1]) \o <<" ">> \o SpellAll(Tail(words))

\* the words the texts handed to expand_synonyms are made of
SynonymWords ==
    { <<"e", "m", "a", "i", "l">>,
      <<"o", "p", "e", "n">>,
      <<"w", "e", "b", "s", "i", "t", "e">>,
      <<"t", "y", "p", "e">>,
      <<"c", "l", "i", "c", "k">>,
      <<"m", "a", "i", "l">>,
      <<"m", "e", "s", "s", "a", "g", "e">>,
      <<"v", "i", "s", "i", "t">>,
      <<"g", "o">>,
      <<"t", "o">>,
      <<"w", "h", "i", "t", "e">>,
      <<"s", "e", "n", "d">> }

\* the texts as preprocess_input hands them over: lower case, one space
\* between two words
SynonymTexts ==
    SynonymWords \cup {a \o <<" ">> \o b : a, b \in SynonymWords}

SynonymCall(input, applied, once, text) ==
    [kind |-> "synonyms", input |-> input, applied |-> applied, once |-> once,
     text |-> text]

\* expand_synonyms applied to the text at hand
ExpandSynonyms ==
    /\ program = "catalogue"
    /\ call # None /\ call.kind = "synonyms"
    /\ call.applied < 2
    /\ LET text == expand_synonyms_chars(call.text)
       IN  call' = SynonymCall(call.input, call.applied + 1,
                               IF call.applied = 0 THEN text ELSE call.once, text)
    /\ UNCHANGED <<program, last_match, varsA, varsApp, varsStore>>

\* the similarities of the query made of the name and keywords of an action
\* to the rows of action_vectors: the rows fitted on that very text get one
\* and the same score, the highest when the preprocessed query still shares
\* a feature with it; the other rows score lower
SelfSimVectorsA(action_text, texts, vectors) ==
    IF vectors = None THEN {<<>>}
    ELSE LET rows == 1..vectors.rows
             own == {i \in rows : i <= Len(texts) /\ texts[i] = action_text}
             score == IF Features(<<preprocess_input(action_text)>>)
                            \cap Features(<<action_text>>) # {}
                      THEN HighestOf(SimValues) ELSE 0
         IN  { [i \in rows |-> IF i \in own THEN score ELSE low[i]] :
                 low \in [rows \ own -> SimValues \ {HighestOf(SimValues)}] }

\* the similarities of a query to the rows of action_vectors (find_best_match
\* computes them unless it returns early); an empty query is similar to none
SimVectorsA(user_input, vectors) ==
    IF vectors = None THEN {<<>>}
    ELSE IF user_input = <<>> THEN {[i \in 1..vectors.rows |-> 0]}
    ELSE SimVectorsOver(1..vectors.rows, SimValues)

----------------------------------------------------------------------------
(* Actions on the action catalogue and its matcher *)

\* the action added by add_action_mapping in the model
NewEntry ==
    [action_id |-> "scroll_page", action_name |-> <<"scroll", "page">>,
     category |-> "web", keywords |-> << <<"scroll">>, <<"page">> >>,
     steps |-> << [step_id |-> 11, order |-> 1, action |-> "click",
                   selector |-> "body", parameters |-> {}] >>]

\* an action whose steps the caller hands over in the order it wrote them
LoginEntry ==
    [action_id |-> "log_in", action_name |-> <<"open", "login">>,
     category |-> "web", keywords |-> << <<"login">> >>,
     steps |-> << [step_id |-> 13, order |-> 2, action |-> "click",
                   selector |-> "button", parameters |-> {}],
                  [step_id |-> 12, order |-> 1, action |-> "type",
                   selector |-> "input_field", parameters |-> {}] >>]

NewEntries == {NewEntry, LoginEntry}

\* add_action_mapping called with an action
AddAction(entry) ==
    /\ program = "catalogue"
    /\ ui_mappingsA' = add_action_mapping(ui_mappingsA, entry)
    /\ xlsxA' = save_mappings_to_excel(xlsxA, ui_mappingsA')
    /\ UNCHANGED <<program, call, framesA, action_ids, action_texts, action_vectors, last_match,
                   varsApp, varsStore>>

AddActionMapping == AddAction(NewEntry)

LookupActionIds == {"compose_email", "open_file", "press_it", "log_in", "no_such_action"}

\* ui_tree.UITreeManager.get_automation_steps called on the catalogue
GetAutomationSteps(action_id) ==
    /\ program = "catalogue"
    /\ call' = Lookup("get_automation_steps", ui_mappingsA, action_id,
                      get_automation_steps(ui_mappingsA, action_id))
    /\ UNCHANGED <<program, writes, varsApp, varsStore, last_match, varsA>>

\* a save as seen from outside: the catalogue handed to it, whether that is
\* the catalogue as the last load left it, loaded from the file as it is on
\* disk, and the file after the save
Saved(catalog, as_loaded, file) ==
    [kind |-> "save", catalog |-> catalog, as_loaded |-> as_loaded, file |-> file]

\* the load that follows a save: whether the file is still as the save left
\* it, and the catalogue loaded
SavedAndLoaded(saved, file, catalog) ==
    [kind |-> "save_load", catalog |-> saved.catalog, as_loaded |-> saved.as_loaded,
     untouched |-> (file = saved.file), result |-> catalog]

\* ui_tree.UITreeManager.save_mappings_to_excel called on the catalogue
SaveA ==
    /\ program = "catalogue"
    /\ xlsxA' = save_mappings_to_excel(xlsxA, ui_mappingsA)
    /\ call' = Saved(ui_mappingsA,
                     ui_mappingsA = process_mappings(framesA) /\ framesA = xlsxA,
                     xlsxA')
    /\ UNCHANGED <<program, framesA, ui_mappingsA, action_ids, action_texts,
                   action_vectors, last_match, varsApp, varsStore>>

\* ui_tree.UITreeManager.load_ui_mappings called again
ReloadA ==
    /\ program = "catalogue"
    /\ LET after == load_ui_mappingsA(xlsxA)
       IN  /\ xlsxA' = after.xlsxA
           /\ framesA' = after.framesA
           /\ ui_mappingsA' = after.ui_mappingsA
           /\ call' = IF call.kind = "save"
                      THEN SavedAndLoaded(call, xlsxA, after.ui_mappingsA)
                      ELSE call
    /\ UNCHANGED <<program, action_ids, action_texts, action_vectors, last_match,
                   varsApp, varsStore>>

\* TFIDFMatcher.update_corpus
UpdateCorpus ==
    /\ program = "catalogue"
    /\ LET after == build_action_corpus(ui_mappingsA, action_vectors)
       IN  /\ action_ids' = after.action_ids
           /\ action_texts' = after.action_texts
           /\ action_vectors' = after.action_vectors
    /\ UNCHANGED <<program, call, xlsxA, framesA, ui_mappingsA, last_match, varsApp, varsStore>>

\* the user replaces or removes data/ui_tree.xlsx
ExternalWriteA(book) ==
    /\ program = "catalogue"
    /\ Len(writes) < MaxEdits
    /\ book # xlsxA
    /\ xlsxA' = book
    /\ writes' = Append(writes, book)
    /\ UNCHANGED <<program, call, framesA, ui_mappingsA, action_ids, action_texts,
                   action_vectors, last_match, varsApp, xlsx, ui_mappings, tfidf_matrix>>

\* the files the user puts in the place of data/ui_tree.xlsx
UserBooksA ==
    {Missing, Corrupt, SingleFramesA, DefaultFramesA, PartialFramesA, NoStepsSheetA}

EditWorkbookA == \E book \in UserBooksA : ExternalWriteA(book)

\* a query as seen from outside: the similarities of the input to the rows
\* of the index, the floor, the templates the rows of the index were built
\* from, the templates of the store at that time, the value returned; rows:
\* the index rows of the actions find_best_match returned
MatchRecord(matcher, sims, threshold, index, catalog, resultB, resultA, rows) ==
    [kind |-> "match", matcher |-> matcher, sims |-> sims, threshold |-> threshold,
     index |-> index, catalog |-> catalog, resultB |-> resultB, resultA |-> resultA,
     rows |-> rows]

\* the task ids of the store of the application, in sheet order
TaskIds(mappings) ==
    IF mappings = None THEN <<>>
    ELSE [k \in DOMAIN mappings.task_templates |-> mappings.task_templates[k].task_id]

\* the action ids of the catalogue, in insertion order
ActionIds(mappings) == [k \in DOMAIN mappings |-> mappings[k].action_id]

\* a query of TFIDFMatcher.find_best_match (get_action_suggestions asks with
\* top_k = 5 and threshold 0.05)
MatchAResult(user_input, top_k, threshold, sims) ==
    LET result == find_best_match(user_input, top_k, threshold, action_ids,
                                  action_vectors, sims)
    IN  MatchRecord("A", sims, threshold, action_ids, ActionIds(ui_mappingsA), None,
            result, IF result = <<>> THEN <<>> ELSE matches(top_k, threshold, sims))

MatchA(user_input, top_k, threshold, sims) ==
    /\ program = "catalogue"
    /\ last_match' = MatchAResult(user_input, top_k, threshold, sims)
    /\ UNCHANGED <<program, call, varsA, varsApp, varsStore>>

QueryA ==
    \E user_input \in {<<>>, <<"click">>} : \E q \in {<<3, 10>>, <<5, 5>>} :
        \E sims \in SimVectorsA(user_input, action_vectors) : MatchA(user_input, q[1], q[2], sims)

\* a query of ui_tree_manager.UITreeManager.find_best_matching_task
MatchBResult(sims) ==
    MatchRecord("B", sims, TFIDF_MIN_SIMILARITY,
        IF tfidf_matrix = None THEN <<>> ELSE tfidf_matrix.docs, TaskIds(ui_mappings),
        find_best_matching_task(ui_mappings, tfidf_matrix, sims), <<>>, <<>>)

MatchB(sims) ==
    /\ program = "app"
    /\ last_match' = MatchBResult(sims)
    /\ UNCHANGED <<program, call, varsA, varsApp, varsStore>>

QueryB == \E sims \in SimVectors(tfidf_matrix, SimValues) : MatchB(sims)

\* a query made of the name and the keywords of a template of the store
SelfMatch(matcher, template) ==
    [kind |-> "self_match", matcher |-> matcher, template |-> template]

\* find_best_matching_task asked with the name and keywords of row k
SelfMatchB(k) ==
    /\ program = "app"
    /\ ui_mappings # None /\ tfidf_matrix # None
    /\ k \in DOMAIN ui_mappings.task_templates
    /\ Len(tfidf_matrix.docs) = Len(ui_mappings.task_templates)
    /\ \E sims \in SelfSimVectors(ui_mappings, k, SimValues) :
          last_match' = MatchBResult(sims)
    /\ call' = SelfMatch("B", ui_mappings.task_templates[k].task_id)
    /\ UNCHANGED <<program, varsA, varsApp, varsStore>>

\* find_best_match (top_k = 3, threshold = 0.1) asked with the name and the
\* keywords of the k-th action of the catalogue
SelfMatchA(k) ==
    /\ program = "catalogue"
    /\ k \in DOMAIN ui_mappingsA
    /\ LET user_input == ActionText(get_all_actions(ui_mappingsA)[k])
       IN  \E sims \in SelfSimVectorsA(user_input, action_texts, action_vectors) :
              last_match' = MatchAResult(user_input, 3, TFIDF_MIN_SIMILARITY, sims)
    /\ call' = SelfMatch("A", ui_mappingsA[k].action_id)
    /\ UNCHANGED <<program, varsA, varsApp, varsStore>>

----------------------------------------------------------------------------
(* Specification of the application *)

\* TaskAutomationApp(): its TaskProcessor builds the store, which loads
InitStore ==
    \E file \in {Missing, Corrupt, to_excel(FormFrames)} :
        LET after == load_ui_mappings(file, None, None)
        IN  /\ xlsx = after.xlsx
            /\ ui_mappings = after.ui_mappings
            /\ tfidf_matrix = after.tfidf_matrix

InitApp ==
    /\ runs = <<>>
    /\ automation_engine = 0
    /\ current_status = Ready
    /\ last_response = [task |-> "", status |-> "Ready", logged |-> "-"]
    /\ handlers = <<>>

\* TFIDFMatcher(): its UITreeManager loads, then build_action_corpus
InitA ==
    \E file \in {Missing, SingleFramesA, Corrupt, BlankFramesA} :
        LET store == load_ui_mappingsA(file)
            corpus == build_action_corpus(store.ui_mappingsA, None)
        IN  /\ xlsxA = store.xlsxA
            /\ framesA = store.framesA
            /\ ui_mappingsA = store.ui_mappingsA
            /\ action_ids = corpus.action_ids
            /\ action_texts = corpus.action_texts
            /\ action_vectors = corpus.action_vectors

\* the implementation that is not running in this process
NoStore == xlsx = Missing /\ ui_mappings = None /\ tfidf_matrix = None

NoStoreA ==
    /\ xlsxA = Missing
    /\ framesA = None
    /\ ui_mappingsA = <<>>
    /\ action_ids = <<>>
    /\ action_texts = <<>>
    /\ action_vectors = None

Init ==
    /\ program = "app"
    /\ writes = <<>>
    /\ last_match = None
    /\ call = None
    /\ InitStore /\ InitApp /\ NoStoreA

Next ==
    \/ Request
    \/ \E h \in DOMAIN handlers : ProcessInputReturn(h)
    \/ \E r \in DOMAIN runs : RunStart(r)
    \/ \E r \in DOMAIN runs : RunFinish(r)
    \/ \E status \in StatusTexts : UpdateStatus(status)
    \/ EditWorkbook
    \/ Reload

Spec == Init /\ [][Next]_vars

----------------------------------------------------------------------------
(* Specification of the two matchers: queries, loads and additions *)

InitM ==
    /\ writes = <<>>
    /\ last_match = None
    /\ call = None
    /\ InitApp
    /\ \/ program = "app" /\ InitStore /\ NoStoreA
       \/ program = "catalogue" /\ InitA /\ NoStore

NextM ==
    \/ Reload
    \/ QueryB
    \/ ReloadA
    \/ AddActionMapping
    \/ UpdateCorpus
    \/ QueryA

SpecM == InitM /\ [][NextM]_vars

----------------------------------------------------------------------------
(* Direct calls of extract_dynamic_values *)

\* the white space a text ends with
Tails == {<<>>, <<" ">>, <<" ", " ">>, <<"\n">>, <<" ", "\n">>, <<"\n", " ">>}

\* how a text of n words is laid out: <<i, gap, tail>>, the white space gap
\* after its word i, one blank after every other word, tail at its end
Layouts(n) ==
    {<<0, <<" ">>, tail>> : tail \in Tails}
    \cup {<<i, gap, <<>>>> : i \in 1..(n - 1), gap \in {<<" ", " ">>, <<"\n">>}}

\* the words from word k on, with their white space
RECURSIVE Join(_, _, _)
Join(words, k, layout) ==
    IF k > Len(words) THEN layout[3]
    ELSE IF k = Len(words) THEN <<words[k]>> \o layout[3]
    ELSE <<words[k]>> \o (IF k = layout[1] THEN layout[2] ELSE <<" ">>)
         \o Join(words, k + 1, layout)

EmailWords == {"john@x.com", "amy@y.org", "regarding", "About", "subject", "to"}
SearchWords == {"search", "for", "Find", "google", "python"}
NavigateWords == {"https://a.com", "a.com", "httpbin.org", "go", "to"}

Examples ==
    { <<"email", " ", "john@x.com", " ", "regarding", " ", "the", " ", "budget">>,
      <<"search", " ", "for", " ", "python", " ", "tutorials">>,
      <<"look", " ", "up", " ", "python">>,
      <<"visit", " ", "c.net">>,
      <<"email", " ", "john@x.com", " ", "regarding", " ", "the", " ", "budget", "\n",
        "thanks">>,
      <<"regarding", " ", " ", " ", "to", "\n", "amy@y.org">>,
      <<"About", "\n", " ", "\n">>,
      <<"search", " ", "for", "\n", "python", " ", "tutorials", "\n", "please">>,
      <<"go", "\n", "to", "\n", "a.com">>,
      <<>> }

\* a task as find_best_matching_task returns it, as far as extraction reads it
TaskInfo(task_id) == [kind |-> "task", task |-> [task_id |-> task_id]]

Args(user_input, task_info) ==
    [kind |-> "args", user_input |-> user_input, task_info |-> task_info]

Extracted(user_input, task_info, result) ==
    [kind |-> "extract", user_input |-> user_input, task_info |-> task_info,
     result |-> result]

\* the words of the texts of a task
Alphabets ==
    { <<EmailWords, "email_compose">>, <<SearchWords, "web_search">>,
      <<NavigateWords, "web_navigate">> }

\* the arguments of the call at hand: a text of at most MaxWords words of
\* the alphabet of a task with that task, or one of the examples with any
\* task, with a task without task_id or with None
ExtractArgs ==
    \/ \E a \in Alphabets : \E n \in 0..MaxWords :
          \E words \in [1..n -> a[1]] : \E layout \in Layouts(n) :
              call = Args(Join(words, 1, layout), TaskInfo(a[2]))
    \/ \E t \in Examples :
          \E info \in {TaskInfo("email_compose"), TaskInfo("web_search"),
                        TaskInfo("web_navigate"), TaskInfo("file_create"),
                        [kind |-> "task", task |-> [task_name |-> "Untitled"]], None} :
              call = Args(t, info)

\* extract_dynamic_values called with the arguments at hand
Extract ==
    /\ program = "app"
    /\ call # None /\ call.kind = "args"
    /\ call' = Extracted(call.user_input, call.task_info,
                         extract_dynamic_values(call.user_input, call.task_info))
    /\ UNCHANGED <<program, last_match, varsA, varsApp, varsStore>>

\* a TaskProcessor on the default workbook and the arguments of a call
InitX ==
    /\ program = "app"
    /\ writes = <<>>
    /\ last_match = None
    /\ ExtractArgs
    /\ LET after == load_ui_mappings(Missing, None, None)
       IN  /\ xlsx = after.xlsx
           /\ ui_mappings = after.ui_mappings
           /\ tfidf_matrix = after.tfidf_matrix
    /\ InitApp /\ NoStoreA

NextX == Extract

SpecX == InitX /\ [][NextX]_vars

----------------------------------------------------------------------------
(* Specification of the self-queries: each matcher asked with the name and *)
(* the keywords of each template of its catalogue                          *)

InitStoreQ ==
    \E file \in {Missing, to_excel(FormFrames), to_excel(TwinFrames)} :
        LET after == load_ui_mappings(file, None, None)
        IN  /\ xlsx = after.xlsx
            /\ ui_mappings = after.ui_mappings
            /\ tfidf_matrix = after.tfidf_matrix

InitQ ==
    /\ writes = <<>>
    /\ last_match = None
    /\ call = None
    /\ InitApp
    /\ \/ program = "app" /\ InitStoreQ /\ NoStoreA
       \/ program = "catalogue" /\ InitA /\ NoStore

NextQ ==
    \/ \E k \in 1..Len(TaskIds(ui_mappings)) : SelfMatchB(k)
    \/ \E k \in DOMAIN ui_mappingsA : SelfMatchA(k)

SpecQ == InitQ /\ [][NextQ]_vars

----------------------------------------------------------------------------
(* Specification of the two template stores: the file changes, loads and   *)
(* additions                                                               *)

NextS ==
    \/ EditStoreWorkbook
    \/ Reload
    \/ EditWorkbookA
    \/ ReloadA
    \/ SaveA
    \/ AddActionMapping
    \/ UpdateCorpus

SpecS == InitM /\ [][NextS]_vars

----------------------------------------------------------------------------
(* Specification of the lookups: the file changes, loads, additions and    *)
(* the callers' questions to the two stores                                *)

NextL ==
    \/ EditStoreWorkbook
    \/ Reload
    \/ EditWorkbookA
    \/ ReloadA
    \/ \E entry \in NewEntries : AddAction(entry)
    \/ \E task_id \in LookupTaskIds : GetTaskSteps(task_id)
    \/ \E element_id \in LookupElementIds : GetElementSelector(element_id)
    \/ \E action_id \in LookupActionIds : GetAutomationSteps(action_id)

SpecL == InitM /\ [][NextL]_vars

----------------------------------------------------------------------------
(* Specification of the application with requests arriving at any time *)

NextC ==
    \/ RequestAnyTime
    \/ \E h \in DOMAIN handlers : ProcessInputReturn(h)
    \/ \E r \in DOMAIN runs : RunStart(r)
    \/ \E r \in DOMAIN runs : RunFinish(r)
    \/ \E status \in StatusTexts : UpdateStatus(status)

SpecC == Init /\ [][NextC]_vars

----------------------------------------------------------------------------
(* Specification of expand_synonyms applied to a text, and once more      *)

InitY ==
    /\ program = "catalogue"
    /\ writes = <<>>
    /\ last_match = None
    /\ \E text \in SynonymTexts : call = SynonymCall(text, 0, text, text)
    /\ InitApp /\ InitA /\ NoStore

NextY == ExpandSynonyms

SpecY == InitY /\ [][NextY]_vars

----------------------------------------------------------------------------
(* Specification of execute_step called on one step                       *)

InitP ==
    /\ program = "catalogue"
    /\ writes = <<>>
    /\ last_match = None
    /\ \E driver \in BOOLEAN : \E step \in StepDicts : call = StepCall(driver, step)
    /\ InitApp /\ InitA /\ NoStore

NextP == \E env \in BOOLEAN : ExecuteStep(env)

SpecP == InitP /\ [][NextP]_vars

----------------------------------------------------------------------------
(* Specification of the application serving one request after another,    *)
(* the store left alone                                                    *)

NextR ==
    \/ RequestAfterRun
    \/ \E h \in DOMAIN handlers : ProcessInputReturn(h)
    \/ \E r \in DOMAIN runs : RunStart(r)
    \/ \E r \in DOMAIN runs : RunFinish(r)
    \/ \E status \in StatusTexts : UpdateStatus(status)

SpecR == Init /\ [][NextR]_vars

----------------------------------------------------------------------------
(* Properties of a run *)

\* the threads of run_automation that have been started and have not ended
InProgress == {r \in DOMAIN runs : runs[r].pc # "done"}

\* C2: at most one run is in progress at any time: a request that yields a
\* ready plan while a run is in progress starts no second run beside it.
C2_OneRunAtATime == Cardinality(InProgress) <= 1

\* the terminal states of a run over a plan: completed, or failed at one of
\* the steps of the plan (the two messages of run_automation included)
TerminalStatuses(run) ==
    { <<"Task completed successfully!">>, <<"Task failed. Please check the logs.">> }
    \cup { <<"Failed at step ", ToString(i)>> : i \in DOMAIN run.plan.steps }

\* C4: a run that has ended has ended in one terminal state, completed or
\* failed at a step of its plan: that is the one status it has written last,
\* and what has been raised in its thread shows as a failure at a step.
C4_OneTerminalState ==
    \A r \in DOMAIN runs :
        runs[r].pc = "done" =>
            /\ runs[r].statuses # <<>>
            /\ runs[r].statuses[Len(runs[r].statuses)] \in TerminalStatuses(runs[r])

NoMatchResponse(response) ==
    response.task = "Could not understand the task" /\ response.status = "Ready"

\* C7: no plan and no run is ever made of a template without steps: the
\* request that matches such a template is answered like one that matches
\* nothing, and starts no run.
C7_NoPlanWithoutSteps ==
    [][ /\ \A r \in DOMAIN runs' : runs'[r].plan.steps # <<>>
        /\ (last_response' # last_response
            /\ last_response'.logged = "No steps found for task") =>
                (runs' = runs /\ NoMatchResponse(last_response')) ]_vars

\* a request matched idle_task, which has no steps, and no run was started
C7_Witness ==
    /\ last_response.logged = "No steps found for task"
    /\ NoMatchResponse(last_response)
    /\ runs = <<>>
    /\ ui_mappings # None
    /\ \E k \in DOMAIN ui_mappings.task_templates :
          ui_mappings.task_templates[k].task_id = "idle_task"

\* the steps of the template of a plan in a store
StepsIn(store, plan) ==
    IF store = None THEN <<>> ELSE get_task_steps(store, plan.task_info.task.task_id)

\* C8: a load of the store while a run is in progress changes nothing of
\* what the run holds: its template, its steps and its dynamic values stay
\* those it was started with, all of the catalogue it was planned from.
C8_RunKeepsSnapshot ==
    /\ [][ \A r \in DOMAIN runs :
             (r \in InProgress /\ ui_mappings' # ui_mappings) =>
                 /\ runs'[r].plan = runs[r].plan
                 /\ runs'[r].snapshot = runs[r].snapshot ]_vars
    /\ [](\A r \in DOMAIN runs :
            runs[r].plan.steps = StepsIn(runs[r].snapshot, runs[r].plan))

\* a run is in progress, the store has been loaded from another workbook
\* since it started, and the run holds the steps of the old catalogue
C8_Witness ==
    \E r \in InProgress :
        /\ ui_mappings # runs[r].snapshot
        /\ runs[r].plan.steps # StepsIn(ui_mappings, runs[r].plan)
        /\ runs[r].plan.steps = StepsIn(runs[r].snapshot, runs[r].plan)

----------------------------------------------------------------------------
(* Properties of the matchers and the template stores *)

MaxOf(sims) == CHOOSE v \in Range(sims) : \A w \in Range(sims) : w <= v

FirstMax(sims) ==
    CHOOSE i \in DOMAIN sims :
        sims[i] = MaxOf(sims) /\ \A j \in DOMAIN sims : j < i => sims[j] # MaxOf(sims)

Queried(matcher) ==
    /\ last_match # None
    /\ last_match.matcher = matcher
    /\ last_match.sims # <<>>
    /\ last_match.index # <<>>
    /\ last_match.catalog # <<>>

\* C5: a query whose highest similarity is below the floor gets no match,
\* one whose highest similarity is at or above the floor gets a template,
\* and nothing either matcher returns scores below the floor of the query.
C5_FloorDecides ==
    /\ Queried("B") =>
          /\ (MaxOf(last_match.sims) < last_match.threshold) <=> (last_match.resultB = None)
          /\ last_match.resultB # None =>
                last_match.resultB.similarity_score >= last_match.threshold
    /\ Queried("A") =>
          /\ (MaxOf(last_match.sims) < last_match.threshold) <=> (last_match.resultA = <<>>)
          /\ \A k \in DOMAIN last_match.rows :
                last_match.sims[last_match.rows[k]] >= last_match.threshold

\* C6: a returned template has the highest similarity of all rows of the
\* index, and of several with that similarity it is the first in the order
\* the templates were put into the index.
C6_FirstMaxWins ==
    /\ (Queried("B") /\ last_match.resultB # None) =>
          /\ last_match.resultB.similarity_score = MaxOf(last_match.sims)
          /\ last_match.resultB.task.task_id = last_match.index[FirstMax(last_match.sims)]
    /\ (Queried("A") /\ last_match.resultA # <<>>) =>
          /\ last_match.rows[1] = FirstMax(last_match.sims)
          /\ last_match.resultA[1] = last_match.index[FirstMax(last_match.sims)]

\* two templates tie at the highest similarity and the earlier one is returned
C6_Witness ==
    /\ Queried("B")
    /\ last_match.resultB # None
    /\ \E i, j \in DOMAIN last_match.sims :
          /\ i < j
          /\ last_match.sims[i] = MaxOf(last_match.sims)
          /\ last_match.sims[j] = MaxOf(last_match.sims)
          /\ last_match.resultB.task.task_id = last_match.index[i]

\* C9: the index of each matcher holds one row per template of its store's
\* catalogue, in the order of the catalogue.
C9_IndexIsCurrent ==
    /\ program = "app" /\ ui_mappings # None =>
          /\ tfidf_matrix # None
          /\ tfidf_matrix.docs = TaskIds(ui_mappings)
    /\ program = "catalogue" =>
          /\ action_ids = ActionIds(ui_mappingsA)
          /\ Len(action_texts) = Len(ui_mappingsA)
          /\ ui_mappingsA # <<>> =>
                (action_vectors # None /\ action_vectors.rows = Len(ui_mappingsA))

\* a step that is load_ui_mappings finding no file
LoadsMissing ==
    /\ vars' # vars
    /\ program = "app"
    /\ xlsx = Missing
    /\ writes' = writes
    /\ last_match' = last_match

\* a step that is load_ui_mappings of ui_tree.py finding no file
LoadsMissingA ==
    /\ program = "catalogue"
    /\ xlsxA = Missing
    /\ writes' = writes
    /\ xlsxA' # xlsxA \/ framesA' # framesA

\* after the load: the workbook is on disk, it is the catalogue of the store,
\* and loading again changes nothing
Persisted ==
    /\ xlsx' # Missing
    /\ ui_mappings' # None
    /\ ui_mappings' = read_excel(xlsx')
    /\ load_ui_mappings(xlsx', ui_mappings', tfidf_matrix') =
          [xlsx |-> xlsx', ui_mappings |-> ui_mappings', tfidf_matrix |-> tfidf_matrix']

PersistedA ==
    /\ xlsxA' # Missing
    /\ framesA' = xlsxA'
    /\ ui_mappingsA' = process_mappings(framesA')
    /\ load_ui_mappingsA(xlsxA') =
          [xlsxA |-> xlsxA', framesA |-> framesA', ui_mappingsA |-> ui_mappingsA']

FiveCategories == <<"email", "web", "file", "app", "search">>
FourCategories == <<"email", "web", "file", "app">>

\* C10 as claimed: a load that finds no file writes and loads the default
\* catalogue with the categories email, web, file, app and search, and a
\* further load yields the same catalogue.
C10_DefaultHasFiveCategories ==
    [][ /\ LoadsMissing => (Persisted /\ ui_mappings'.categories = FiveCategories)
        /\ LoadsMissingA => (PersistedA /\ framesA'.categories = FiveCategories) ]_vars

\* C10: a load that finds no file writes and loads the default catalogue,
\* whose categories are email, web, file, app and search in
\* ui_tree_manager.py and email, web, file and app in ui_tree.py, and a
\* further load yields the same catalogue.
C10_DefaultOnMissingFile ==
    [][ /\ LoadsMissing => (Persisted /\ ui_mappings'.categories = FiveCategories)
        /\ LoadsMissingA => (PersistedA /\ framesA'.categories = FourCategories) ]_vars

\* the catalogue of ui_tree.py has been loaded again after its file was
\* deleted: the default workbook is on disk and loaded
C10_Witness ==
    /\ program = "catalogue"
    /\ writes = <<Missing>>
    /\ xlsxA = DefaultFramesA
    /\ framesA = DefaultFramesA
    /\ ui_mappingsA = process_mappings(DefaultFramesA)

\* C11: a matcher asked with the name and the keywords of a template of its
\* catalogue returns that template.
C11_SelfMatch ==
    /\ (call # None /\ call.kind = "self_match" /\ call.matcher = "B") =>
          /\ last_match.resultB # None
          /\ last_match.resultB.task.task_id = call.template
    /\ (call # None /\ call.kind = "self_match" /\ call.matcher = "A") =>
          /\ last_match.resultA # <<>>
          /\ last_match.resultA[1] = call.template

----------------------------------------------------------------------------
(* Properties of extract_dynamic_values *)

ExtractedFor(task_id) ==
    /\ call # None
    /\ call.kind = "extract"
    /\ call.task_info # None
    /\ "task_id" \in DOMAIN call.task_info.task
    /\ call.task_info.task.task_id = task_id

\* the text after position p, stripped
Rest(text, p) == strip(SubSeq(text, p + 1, Len(text)))

\* where one of the keywords stands followed by white space and a clause
KeywordHits(text, kws) ==
    {p \in DOMAIN text : /\ lower(text[p]) \in kws
                         /\ p < Len(text)
                         /\ text[p + 1] \in WhiteSpace
                         /\ Rest(text, p) # <<>>}

\* the first matching keyword of a list: the leftmost of all of them, or the
\* leftmost of the first keyword of the list that matches at all
FirstHits(text, kws) ==
    LET found == {k \in DOMAIN kws : KeywordHits(text, {kws[k]}) # {}}
    IN  IF found = {} THEN {}
        ELSE {Min(KeywordHits(text, Range(kws))),
              Min(KeywordHits(text, {kws[Min(found)]}))}

SubjectKeywords == <<"regarding", "about", "subject">>

\* recipient_email is the first email address of the text, absent without one
RecipientIsFirstEmail ==
    LET items == call.result.items
        emails == SelectSeq(call.user_input, IsEmail)
    IN  IF emails = <<>> THEN "recipient_email" \notin DOMAIN items
        ELSE /\ "recipient_email" \in DOMAIN items
             /\ items.recipient_email = <<emails[1]>>

\* C12 as claimed: for an email task recipient_email is the first email
\* address of the input, absent when there is none, and email_subject is
\* always there: all that follows the first matching keyword regarding,
\* about or subject, or Inquiry when no keyword has a clause after it.
C12_SubjectIsTrailingClause ==
    ExtractedFor("email_compose") =>
        LET items == call.result.items
            text == call.user_input
        IN  /\ RecipientIsFirstEmail
            /\ "email_subject" \in DOMAIN items
            /\ IF FirstHits(text, SubjectKeywords) = {}
               THEN items.email_subject \in {<<"Inquiry">>, <<>>}
               ELSE items.email_subject \in
                        {Rest(text, p) : p \in FirstHits(text, SubjectKeywords)}

\* "email john@x.com regarding the budget" gives john@x.com and "the budget"
EmailExample ==
    (ExtractedFor("email_compose")
     /\ call.user_input = <<"email", " ", "john@x.com", " ", "regarding", " ",
                            "the", " ", "budget">>) =>
        call.result.items =
            [f \in {"recipient_email", "email_subject"} |->
                IF f = "recipient_email" THEN <<"john@x.com">>
                ELSE <<"the", " ", "budget">>]

\* the stretches of the text a subject pattern can take with its keyword at
\* p, as <<first, last>>: white space and nothing else lies between the
\* keyword and the stretch, the stretch has no line break in it, and what
\* follows it is " to " (the word between white space) or nothing but white
\* space up to the end of the input
Stretches(text, p) ==
    {ge \in (DOMAIN text) \X (DOMAIN text) :
        /\ p + 1 < ge[1]
        /\ ge[1] <= ge[2]
        /\ \A i \in (p + 1)..(ge[1] - 1) : text[i] \in WhiteSpace
        /\ \A i \in ge[1]..ge[2] : text[i] # "\n"
        /\ \/ \A i \in (ge[2] + 1)..Len(text) : text[i] \in WhiteSpace
           \/ \E a \in (ge[2] + 2)..(Len(text) - 1) :
                 /\ lower(text[a]) = "to"
                 /\ text[a + 1] \in WhiteSpace
                 /\ \A i \in (ge[2] + 1)..(a - 1) : text[i] \in WhiteSpace}

\* the stretch taken: the one that begins latest, and of those the shortest
Taken(text, p) ==
    CHOOSE ge \in Stretches(text, p) :
        \A other \in Stretches(text, p) :
            \/ other[1] < ge[1]
            \/ other[1] = ge[1] /\ ge[2] <= other[2]

\* where the pattern of a keyword matches
PatternHits(text, kw) ==
    {p \in DOMAIN text : lower(text[p]) = kw /\ Stretches(text, p) # {}}

\* C12: for an email task recipient_email is the first email address of the
\* input, absent when there is none, and email_subject is always there: the
\* patterns regarding, about, subject are tried in this order, and the first
\* that matches gives, at the leftmost keyword where it matches, the stretch
\* of one line that follows the white space after the keyword and ends
\* before the next " to " or before the white space that ends the input,
\* stripped; Inquiry when none of them matches.
C12_SubjectIsClauseUpToTo ==
    ExtractedFor("email_compose") =>
        LET items == call.result.items
            text == call.user_input
            found == {k \in DOMAIN SubjectKeywords :
                         PatternHits(text, SubjectKeywords[k]) # {}}
            taken == Taken(text, Min(PatternHits(text, SubjectKeywords[Min(found)])))
        IN  /\ RecipientIsFirstEmail
            /\ "email_subject" \in DOMAIN items
            /\ items.email_subject =
                  IF found = {} THEN <<"Inquiry">>
                  ELSE strip(SubSeq(text, taken[1], taken[2]))
            /\ EmailExample

\* the subject of "About john@x.com to amy@y.org" is john@x.com, which is
\* the recipient too
C12_Witness ==
    /\ ExtractedFor("email_compose")
    /\ call.user_input = <<"About", " ", "john@x.com", " ", "to", " ", "amy@y.org">>
    /\ call.result.items.email_subject = <<"john@x.com">>
    /\ call.result.items.recipient_email = <<"john@x.com">>

\* a subject pattern does not match across a line break: the keyword of
\* "email john@x.com regarding the budget\nthanks" gives no subject
C12_LineBreak ==
    /\ ExtractedFor("email_compose")
    /\ call.user_input = <<"email", " ", "john@x.com", " ", "regarding", " ",
                           "the", " ", "budget", "\n", "thanks">>
    /\ call.result.items.email_subject = <<"Inquiry">>

\* the pattern of subject is tried after that of about, wherever they stand
C12_PatternOrder ==
    /\ ExtractedFor("email_compose")
    /\ call.user_input = <<"subject", " ", "john@x.com", " ", "About", " ", "amy@y.org">>
    /\ call.result.items.email_subject = <<"amy@y.org">>

SearchKeywords == <<"search", "find", "look", "google">>

\* the clause after the keyword at p, with or without the word that may
\* follow the keyword (search for, look up)
SearchClauses(text, p) ==
    {Rest(text, p)}
    \cup {Rest(text, q) : q \in {r \in (p + 1)..Len(text) :
                                   /\ r = SkipSpaces(text, p + 1)
                                   /\ lower(text[r]) \in {"for", "up"}}}

\* C13: for a search task search_query is always there: all that follows the
\* first matching keyword search (for), find, look (up) or google, else the
\* whole input as it is; it is empty only when the input is empty.
C13_SearchQueryNeverEmpty ==
    ExtractedFor("web_search") =>
        LET items == call.result.items
            text == call.user_input
        IN  /\ "search_query" \in DOMAIN items
            /\ items.search_query = <<>> => text = <<>>
            /\ IF FirstHits(text, SearchKeywords) = {}
               THEN items.search_query \in {text, <<>>}
               ELSE items.search_query \in
                        UNION {SearchClauses(text, p) : p \in FirstHits(text, SearchKeywords)}
            /\ text = <<"search", " ", "for", " ", "python", " ", "tutorials">> =>
                  items.search_query = <<"python", " ", "tutorials">>

\* the pieces a target_url was put together from, as one string
StartsWithScheme(url) ==
    url # <<>> /\ (url[1] \in {"https://", "http://"} \/ IsUrl(url[1]))

\* a word that names a site and is no URL
IsBareDomain(w) == IsWebsite(w) /\ ~IsUrl(w)

\* C14: for a navigate task target_url is the first URL of the input, else
\* the first bare .com/.org/.net word with https:// put before it when it has
\* no scheme; every target_url begins with http:// or https://; there is no
\* target_url when the input has neither a URL nor such a word.
C14_TargetUrlHasScheme ==
    ExtractedFor("web_navigate") =>
        LET items == call.result.items
            text == call.user_input
            urls == SelectSeq(text, IsUrl)
            domains == SelectSeq(text, IsBareDomain)
        IN  /\ "target_url" \in DOMAIN items <=> (urls # <<>> \/ domains # <<>>)
            /\ urls # <<>> => items.target_url = <<urls[1]>>
            /\ (urls = <<>> /\ domains # <<>>) =>
                  items.target_url = <<"https://", domains[1]>>
            /\ "target_url" \in DOMAIN items => StartsWithScheme(items.target_url)

\* the fields extract_dynamic_values can give for a task id
FieldsOf(task_id) ==
    CASE task_id = "email_compose" -> {"recipient_email", "email_subject"}
      [] task_id = "web_search" -> {"search_query"}
      [] task_id = "web_navigate" -> {"target_url"}
      [] OTHER -> {}

CallTaskId ==
    IF call.task_info = None THEN ""
    ELSE IF "task_id" \in DOMAIN call.task_info.task THEN call.task_info.task.task_id
    ELSE ""

\* C15: extract_dynamic_values returns a dict whatever it is called with: it
\* holds no field but those of the task id, none for a task id without
\* patterns, and a field whose pattern finds nothing is not in it.
C15_ExtractNeverRaises ==
    (call # None /\ call.kind = "extract") =>
        /\ call.result.kind = "dict"
        /\ DOMAIN call.result.items \subseteq FieldsOf(CallTaskId)
        /\ (CallTaskId = "email_compose" /\ SelectSeq(call.user_input, IsEmail) = <<>>) =>
              "recipient_email" \notin DOMAIN call.result.items
        /\ (CallTaskId = "web_navigate" /\ SelectSeq(call.user_input, IsWebsite) = <<>>) =>
              "target_url" \notin DOMAIN call.result.items

\* called without a task (None), extract_dynamic_values has returned an
\* empty dict
C15_Witness ==
    /\ call # None
    /\ call.kind = "extract"
    /\ call.task_info = None
    /\ call.user_input # <<>>
    /\ call.result = Dict(NoItems)

----------------------------------------------------------------------------
(* Properties of the lookups *)

Asked(function) == call.kind = "lookup" /\ call.function = function

\* the rows of the action_steps sheet of the store that carry task_id
RowsOf(store, task_id) ==
    IF store = None THEN {}
    ELSE IF "action_steps" \notin store.sheets THEN {}
    ELSE {r \in Range(store.action_steps) : r.task_id = task_id}

\* the steps the catalogue holds for action_id
StepsOfAction(store, action_id) ==
    UNION {Range(store[k].steps) :
             k \in {j \in DOMAIN store : store[j].action_id = action_id}}

NoRepeat(s) == \A i, j \in DOMAIN s : i # j => s[i] # s[j]

\* C16: getSteps(task_id) returns exactly the steps that belong to task_id,
\* each once, in ascending order of their order field, and the empty list
\* when no step belongs to task_id (an unknown id among them); this for
\* get_task_steps of the application's store and for get_automation_steps
\* of the action catalogue.
C16_StepsExactAndSorted ==
    /\ Asked("get_task_steps") =>
          /\ Range(call.result) = RowsOf(call.store, call.id)
          /\ NoRepeat(call.result)
          /\ \A i, j \in DOMAIN call.result :
                i < j => call.result[i].step_order <= call.result[j].step_order
    /\ Asked("get_automation_steps") =>
          /\ Range(call.result) = StepsOfAction(call.store, call.id)
          /\ NoRepeat(call.result)
          /\ \A i, j \in DOMAIN call.result :
                i < j => call.result[i].order <= call.result[j].order

\* the part of C16 that is about get_task_steps of the application's store
C16_TaskStepsExactAndSorted ==
    Asked("get_task_steps") =>
          /\ Range(call.result) = RowsOf(call.store, call.id)
          /\ NoRepeat(call.result)
          /\ \A i, j \in DOMAIN call.result :
                i < j => call.result[i].step_order <= call.result[j].step_order

----------------------------------------------------------------------------
(* Properties of process_input *)

\* the input the request selects (text, else voice, else file) yields no
\* text: the text is blank and nothing else is given, the audio is not
\* understood, the file is not UTF-8 or holds only white space
CannotProduceText(req) ==
    /\ strip(req[1]) = <<>>
    /\ IF req[2] # NoInput THEN ~req[2].ok
       ELSE IF req[3] # NoInput THEN ~req[3].ok \/ strip(req[3].text) = <<>>
       ELSE TRUE

\* the answers of process_input that report an input error
InputErrorResponses ==
    {[task |-> "No input provided", status |-> "Ready", logged |-> "-"],
     [task |-> "Failed to process input", status |-> "Error",
      logged |-> "Error processing input"]}

\* C18: when the input of a request yields no text, process_input answers
\* that request with the input error; process_user_input writes no line to
\* the log (the matcher is not asked) and no run is created.
C18_InputErrorBeforeMatching ==
    /\ []((call.kind = "process_input" /\ CannotProduceText(call.request)) =>
            last_response \in InputErrorResponses)
    /\ [][ (call'.kind = "process_input" /\ CannotProduceText(call'.request)) =>
             Len(runs') <= Len(runs) ]_vars

\* a file of white space only was answered with the error, no run exists
C18_Witness ==
    /\ call.kind = "process_input"
    /\ call.request = << <<>>, NoInput, Bytes(TRUE, <<" ">>) >>
    /\ last_response.task = "Failed to process input"
    /\ last_response.status = "Error"
    /\ runs = <<>>

----------------------------------------------------------------------------
(* Frame of a run *)

\* C19: nothing a run does, up to and including its end, changes the plan
\* the run was given (template, steps, dynamic values), the workbook, the loaded store or the matcher's index; a request
\* made after a run has ended is planned from the store that run was planned
\* from, and when it matches the same template its plan is the same.
C19_RunLeavesStoreAndPlan ==
    /\ [][ \A r \in DOMAIN runs :
             runs'[r] # runs[r] =>
                 /\ runs'[r].plan = runs[r].plan
                 /\ runs'[r].snapshot = runs[r].snapshot
                 /\ xlsx' = xlsx
                 /\ ui_mappings' = ui_mappings
                 /\ tfidf_matrix' = tfidf_matrix ]_vars
    /\ [](\A r1, r2 \in DOMAIN runs :
            r1 < r2 =>
                /\ runs[r2].snapshot = runs[r1].snapshot
                /\ runs[r2].plan.task_info = runs[r1].plan.task_info =>
                      runs[r2].plan = runs[r1].plan)

\* the first run has ended with the error of its thread; the request after
\* it matched the same template and got the same plan
C19_Witness ==
    /\ Len(runs) = 2
    /\ runs[1].pc = "done"
    /\ runs[1].statuses = <<ErrorStatus(runs[1].error)>>
    /\ runs[2].plan = runs[1].plan
    /\ runs[2].plan.dynamic_values # Dict(NoItems)

----------------------------------------------------------------------------
(* Round trip of the catalogue through its file *)

\* what the round trip has to keep of a catalogue of ui_tree_manager.py: the
\* rows of the templates, and for each template the ids and the order
\* numbers of its steps in step order
StepKeys(mappings, task_id) ==
    LET steps == get_task_steps(mappings, task_id)
    IN  [k \in DOMAIN steps |-> <<steps[k].step_id, steps[k].step_order>>]

Equivalent(a, b) ==
    /\ a.task_templates = b.task_templates
    /\ \A k \in DOMAIN a.task_templates :
          StepKeys(a, a.task_templates[k].task_id) = StepKeys(b, a.task_templates[k].task_id)

\* C21: a catalogue saved as load left it and loaded again is an equivalent
\* catalogue, the same templates and for each the same steps in the same
\* order, when nobody else wrote the file in between.  ui_tree.py: save
\* then load gives the catalogue that was saved.  ui_tree_manager.py: the
\* default catalogue written by create_default_mappings is loaded back
\* equivalent, and a loaded catalogue written with to_excel reads back as
\* itself.
C21_SaveLoadRoundTrip ==
    /\ (call.kind = "save_load" /\ call.as_loaded /\ call.untouched) =>
          call.result = call.catalog
    /\ (ui_mappings # None /\ xlsx = create_default_mappings
            /\ ui_mappings = read_excel(xlsx)) =>
          Equivalent(ui_mappings, DefaultFrames)
    /\ ui_mappings # None =>
          /\ read_excel(to_excel(ui_mappings)) = ui_mappings
          /\ Equivalent(read_excel(to_excel(ui_mappings)), ui_mappings)

\* the default catalogue of ui_tree.py, loaded, saved and loaded again
C21_Witness ==
    /\ call.kind = "save_load"
    /\ call.as_loaded
    /\ call.untouched
    /\ call.catalog = process_mappings(DefaultFramesA)
    /\ call.result = call.catalog
    /\ ui_mappingsA = call.result

\* the default catalogue of ui_tree_manager.py written and loaded back: the
\* empty action values have become NaN, templates and steps are the same
C21_WitnessB ==
    /\ ui_mappings # None
    /\ xlsx = create_default_mappings
    /\ ui_mappings = read_excel(xlsx)
    /\ ui_mappings # DefaultFrames
    /\ Equivalent(ui_mappings, DefaultFrames)

----------------------------------------------------------------------------
(* The primitives of navigation and waiting *)

IsNavigate(c) == c.kind = "stepped" /\ lower(c.step.action) = "web_navigate"
IsWait(c) == c.kind = "stepped" /\ lower(c.step.action) = "wait"

\* a value of a step that holds text
HasText(value) == value.t = "str" /\ value.v # <<>>

WithProtocol(url) == IF StartsWithProtocol(url) THEN url ELSE <<"https://">> \o url

\* the URL of a navigate step: its value when that holds text, else its
\* target; the empty string when neither does
UrlOf(step) ==
    IF "url" \in DOMAIN step.parameters /\ HasText(step.parameters["url"])
    THEN step.parameters["url"].v
    ELSE IF HasText(step.selector) THEN step.selector.v
    ELSE <<>>

\* C24: a navigate step takes its URL from its value, else from its target;
\* when the URL is empty the step fails and nothing is asked of the driver,
\* otherwise the driver is asked for that URL.
C24_NavigateNeedsUrl ==
    (IsNavigate(call) /\ call.driver) =>
        IF UrlOf(call.step) = <<>>
        THEN ~call.result /\ call.got = <<>>
        ELSE call.got = <<WithProtocol(UrlOf(call.step))>>

\* what web_navigate does: the value under 'url' is the URL whenever the
\* key is there, the target otherwise; a URL that is a string, the empty
\* one included, is asked of the driver, with https:// before it when it
\* names no protocol; without a driver the step fails
C24_NavigateAsked ==
    IsNavigate(call) =>
        LET given == IF "url" \in DOMAIN call.step.parameters
                     THEN call.step.parameters["url"] ELSE call.step.selector
        IN  /\ (call.driver /\ given.t = "str") => call.got = <<WithProtocol(given.v)>>
            /\ (~call.driver \/ given.t # "str") => (~call.result /\ call.got = <<>>)

\* the step {'action': 'web_navigate', 'selector': '', 'parameters': {}}:
\* the driver was asked for 'https://'
C24_EmptyUrlAsked ==
    /\ IsNavigate(call) /\ call.driver
    /\ call.step.selector = Str(<<>>)
    /\ call.step.parameters = NoParameters
    /\ call.got = << <<"https://">> >>

\* the wait goes to the driver: there is one and the selector reads like
\* an element of a page
WaitsForElement(c) ==
    c.driver /\ c.step.selector.t = "str" /\ StartsLikeElement(c.step.selector.v)

\* the seconds of a wait step: its value when that is an integer, the
\* fallback when it is absent or no number
SecondsOf(step) ==
    IF "timeout" \in DOMAIN step.parameters /\ step.parameters["timeout"].t = "int"
    THEN step.parameters["timeout"].n
    ELSE DefaultTimeout

\* C25: a wait step waits the integer number of seconds its value gives,
\* the fallback when the value is absent or not a number, and a step that
\* only lets the time pass succeeds.
C25_WaitFallsBack ==
    (IsWait(call) /\ call.step.selector.t = "str") =>
        /\ call.waited \o call.slept = <<SecondsOf(call.step)>>
        /\ ~WaitsForElement(call) => call.result

\* what wait_for_element does with a selector that is a string: an integer
\* is waited, the default when no timeout is given, and the step succeeds
\* unless the element it waits for stays away; any other timeout raises
\* before anything is waited and the step fails
C25_WaitAsked ==
    (IsWait(call) /\ call.step.selector.t = "str") =>
        IF "timeout" \in DOMAIN call.step.parameters
              /\ call.step.parameters["timeout"].t # "int"
        THEN ~call.result /\ call.waited = <<>> /\ call.slept = <<>>
        ELSE /\ call.waited \o call.slept = <<SecondsOf(call.step)>>
             /\ ~WaitsForElement(call) => (call.result /\ call.waited = <<>>)

\* the step {'action': 'wait', 'selector': 'page_load', 'parameters':
\* {'timeout': 'abc'}}: nothing was waited and the step failed
C25_TextTimeoutFails ==
    /\ IsWait(call)
    /\ call.step.selector = Str(<<"page_load">>)
    /\ call.step.parameters = [key \in {"timeout"} |-> Str(<<"abc">>)]
    /\ ~call.result
    /\ call.slept = <<>> /\ call.waited = <<>>

\* the same step without a timeout: the default was slept, the step succeeded
C25_DefaultWaited ==
    /\ IsWait(call)
    /\ call.step.selector = Str(<<"page_load">>)
    /\ call.step.parameters = NoParameters
    /\ call.result
    /\ call.slept = <<DefaultTimeout>>

----------------------------------------------------------------------------
(* Actions added to the catalogue *)

HasAction(mappings, action_id) ==
    \E k \in DOMAIN mappings : mappings[k].action_id = action_id

\* the catalogue a load_ui_mappings would build from the file as it is
LoadedFrom(file) == load_ui_mappingsA(file).ui_mappingsA

\* a step of add_action_mapping that added the entry
Adds(entry) ==
    /\ program = "catalogue"
    /\ ~HasAction(ui_mappingsA, entry.action_id)
    /\ ui_mappingsA' = add_action_mapping(ui_mappingsA, entry)

\* C26: after add_action_mapping the new action is returned by
\* get_all_actions and by get_automation_steps, and it is in the backing
\* file: a load_ui_mappings of the file as the call left it has the action.
C26_AddedActionPersists ==
    [][\A entry \in NewEntries :
          Adds(entry) =>
             /\ \E k \in DOMAIN get_all_actions(ui_mappingsA') :
                   get_all_actions(ui_mappingsA')[k].action_id = entry.action_id
             /\ get_automation_steps(ui_mappingsA', entry.action_id) = entry.steps
             /\ HasAction(LoadedFrom(xlsxA'), entry.action_id)]_vars

\* the part of it that is in memory: the action is returned by
\* get_all_actions and get_automation_steps right after the call
C26_AddedActionReturned ==
    [][\A entry \in NewEntries :
          Adds(entry) =>
             /\ \E k \in DOMAIN get_all_actions(ui_mappingsA') :
                   get_all_actions(ui_mappingsA')[k].action_id = entry.action_id
             /\ get_automation_steps(ui_mappingsA', entry.action_id) = entry.steps]_vars

\* the call leaves the file as it was
C26_FileUntouched ==
    [][\A entry \in NewEntries : Adds(entry) => xlsxA' = xlsxA]_vars

\* an added action in the catalogue that a load of the file would not bring
C26_AddedNotInFile ==
    /\ program = "catalogue"
    /\ HasAction(ui_mappingsA, NewEntry.action_id)
    /\ get_automation_steps(ui_mappingsA, NewEntry.action_id) = NewEntry.steps
    /\ ~HasAction(LoadedFrom(xlsxA), NewEntry.action_id)

----------------------------------------------------------------------------
(* The built-in catalogues *)

\* the store holds the built-in catalogue of ui_tree_manager.py, as loaded
\* from the file create_default_mappings writes
OnDefaultCatalog ==
    /\ ui_mappings # None
    /\ tfidf_matrix # None
    /\ ui_mappings = read_excel(create_default_mappings)

\* C27: in the built-in catalogue every task template has at least one
\* action step, so whichever template the matcher selects, the request is
\* answered with a ready plan and never as a task that was not understood.
C27_DefaultTemplatesHaveSteps ==
    OnDefaultCatalog =>
        /\ \A k \in DOMAIN ui_mappings.task_templates :
              get_task_steps(ui_mappings, ui_mappings.task_templates[k].task_id) # <<>>
        /\ \A sims \in SimVectors(tfidf_matrix, AppSimValues) :
              find_best_matching_task(ui_mappings, tfidf_matrix, sims) # None =>
                  process_user_input(<<"go">>, ui_mappings, tfidf_matrix, sims) # None
        /\ last_response.logged # "No steps found for task"

\* the templates of the built-in catalogue that have no step
C27_TemplatesWithoutSteps ==
    OnDefaultCatalog =>
        {ui_mappings.task_templates[k].task_id :
            k \in {j \in DOMAIN ui_mappings.task_templates :
                      get_task_steps(ui_mappings, ui_mappings.task_templates[j].task_id) = <<>>}}
        = {"file_create", "app_open"}

\* a request on the built-in catalogue for which a template was selected
\* and no plan was made: answered as not understood
C27_SelectedWithoutPlan ==
    /\ OnDefaultCatalog
    /\ last_response.logged = "No steps found for task"
    /\ last_response.task = "Could not understand the task"
    /\ last_response.status = "Ready"
    /\ runs = <<>>

\* the catalogue of ui_tree.py is the built-in one
OnDefaultCatalogA ==
    /\ program = "catalogue"
    /\ ui_mappingsA = process_mappings(DefaultFramesA)

\* the steps of a catalogue of ui_tree.py that execute_step rejects as
\* unknown whatever their primitive would answer: <<action_id, step_id>>
RejectedSteps(mappings) ==
    UNION { { <<mappings[k].action_id, mappings[k].steps[j].step_id>> :
                j \in {i \in DOMAIN mappings[k].steps :
                          StepOutcome(mappings[k].steps[i], TRUE) = "unknown"} } :
            k \in DOMAIN mappings }

\* C28: every action type of a step of the built-in catalogue is one that
\* execute_step hands to a primitive; no step of a built-in action is
\* rejected as an unknown action type.
C28_DefaultStepsDispatched ==
    OnDefaultCatalogA =>
        \A k \in DOMAIN ui_mappingsA : \A j \in DOMAIN ui_mappingsA[k].steps :
            /\ lower(ui_mappingsA[k].steps[j].action) \in KnownActions
            /\ execute_step(ui_mappingsA[k].steps[j], TRUE)

\* the built-in catalogue has one step that execute_step rejects: step 9,
\* the second step of open_file, of type navigate
C28_OneStepRejected ==
    OnDefaultCatalogA =>
        /\ RejectedSteps(ui_mappingsA) = {<<"open_file", 9>>}
        /\ get_automation_steps(ui_mappingsA, "open_file")[2].action = "navigate"
        /\ ~execute_step(get_automation_steps(ui_mappingsA, "open_file")[2], TRUE)

\* the built-in catalogue, loaded, with open_file looked up
C28_OpenFileLookedUp ==
    /\ OnDefaultCatalogA
    /\ call.kind = "lookup" /\ call.function = "get_automation_steps"
    /\ call.id = "open_file"
    /\ call.store = ui_mappingsA
    /\ Len(call.result) = 3
    /\ StepOutcome(call.result[2], TRUE) = "unknown"

----------------------------------------------------------------------------
(* The store after load_ui_mappings *)

\* the store holds a catalogue, the matrix has one row per template of that
\* catalogue, and the catalogue is the one in the file
StoreConsistent(file, mappings, matrix) ==
    /\ mappings # None
    /\ matrix # None
    /\ file # Missing /\ file # Corrupt
    /\ "task_templates" \in mappings.sheets
    /\ matrix.docs = TaskIds(mappings)
    /\ mappings = read_excel(file)

\* a step that is load_ui_mappings called on the store
Loads ==
    /\ program = "app"
    /\ writes' = writes /\ call' = call
    /\ <<xlsx, ui_mappings, tfidf_matrix>> # <<xlsx', ui_mappings', tfidf_matrix'>>
    /\ load_ui_mappings(xlsx, ui_mappings, tfidf_matrix) =
          [xlsx |-> xlsx', ui_mappings |-> ui_mappings', tfidf_matrix |-> tfidf_matrix']

\* C29: when load_ui_mappings has returned, in the constructor or later,
\* whether the file was missing, valid, unreadable or without the
\* task_templates sheet, the store holds a catalogue, a matrix built from
\* that catalogue, and the catalogue is the one in the file.
C29_LoadLeavesConsistentStore ==
    /\ program = "app" => StoreConsistent(xlsx, ui_mappings, tfidf_matrix)
    /\ [][Loads => StoreConsistent(xlsx', ui_mappings', tfidf_matrix')]_vars

\* the file the load finds can be read and has the task_templates sheet
Loadable(file) ==
    file # Corrupt /\ (file # Missing => "task_templates" \in read_excel(file).sheets)

\* a load that finds no file or a file it can read, with the task_templates
\* sheet and a template in it, leaves the store consistent; any load leaves
\* a file on disk
C29_LoadOfReadableFile ==
    [][Loads =>
          /\ xlsx' # Missing /\ xlsx' # Corrupt
          /\ (Loadable(xlsx) /\ ui_mappings'.task_templates # <<>>) =>
                StoreConsistent(xlsx', ui_mappings', tfidf_matrix')]_vars

\* after the load of a damaged file: the default workbook is on disk, the
\* store still holds the catalogue and the matrix of the workbook before
C29_StaleAfterUnreadable ==
    /\ program = "app"
    /\ writes # <<>> /\ writes[Len(writes)] = Corrupt
    /\ xlsx = create_default_mappings
    /\ ui_mappings # None
    /\ ui_mappings # read_excel(xlsx)
    /\ tfidf_matrix.docs = TaskIds(ui_mappings)

\* after the load of a workbook without the task_templates sheet: the
\* catalogue is that workbook, the matrix is the one of the workbook
\* before, the default workbook is on disk
C29_NoTemplatesLoaded ==
    /\ program = "app"
    /\ ui_mappings # None
    /\ "task_templates" \notin ui_mappings.sheets
    /\ xlsx = create_default_mappings
    /\ tfidf_matrix # None

\* a store constructed on a damaged file: no catalogue and no matrix
C29_NothingLoaded ==
    /\ program = "app"
    /\ writes = <<>>
    /\ ui_mappings = None /\ tfidf_matrix = None
    /\ xlsx = create_default_mappings

----------------------------------------------------------------------------
(* Synonyms *)

\* the canonical terms, as strings
CanonicalTerms ==
    { Spell("email"), SpellAll(<<"open", "website">>), Spell("open"), Spell("type"),
      Spell("click") }

\* a text made only of canonical terms: one, or two with a space between
IsCanonical(text) ==
    \/ text \in CanonicalTerms
    \/ \E a, b \in CanonicalTerms : text = a \o <<" ">> \o b

\* C30: expand_synonyms leaves a text made only of canonical terms as it
\* is, and applied twice it gives the text it gives applied once.
C30_SynonymsIdempotent ==
    (call.kind = "synonyms" /\ call.applied >= 1) =>
        /\ IsCanonical(call.input) => call.once = call.input
        /\ call.applied = 2 => call.text = call.once

\* the parts that hold: the canonical terms other than 'email' stay as they
\* are, and so does a second application to a text in which the first left
\* no 'mail'
HasMail(text) ==
    \E i \in DOMAIN text :
        i + 3 <= Len(text) /\ SubSeq(text, i, i + 3) = <<"m", "a", "i", "l">>

C30_UnchangedWithoutMail ==
    (call.kind = "synonyms" /\ call.applied >= 1) =>
        /\ (IsCanonical(call.input) /\ ~HasMail(call.input)) => call.once = call.input
        /\ (call.applied = 2 /\ ~HasMail(call.once)) => call.text = call.once

\* 'email' expanded once is 'eemail', twice 'eeemail'
C30_EmailGrows ==
    /\ call.kind = "synonyms"
    /\ call.input = Spell("email")
    /\ call.applied = 2
    /\ call.once = <<"e">> \o Spell("email")
    /\ call.text = <<"e", "e">> \o Spell("email")

\* 'message' expanded once is 'email', twice 'eemail'
C30_MessageTwice ==
    /\ call.kind = "synonyms"
    /\ call.input = <<"m", "e", "s", "s", "a", "g", "e">>
    /\ call.applied = 2
    /\ call.once = Spell("email")
    /\ call.text = <<"e">> \o Spell("email")

\* on the words of the catalogue model, expand_synonyms word by word gives
\* the words the replacement in the string gives
SpelledWords ==
    {"email", "open", "website", "type", "click", "write", "enter", "input", "press",
     "select", "browse", "navigate", "go", "to", "send", "file"}

C30_WordsAgree ==
    \A a, b \in SpelledWords :
        /\ expand_synonyms_chars(Spell(a)) = SpellAll(expand_synonyms(<<a>>))
        /\ expand_synonyms_chars(SpellAll(<<a, b>>)) = SpellAll(expand_synonyms(<<a, b>>))

====
